---- MODULE Spec2Model ----
(***************************************************************************)
(* A model of tsfc/driver.py: entity lowering (lower_integral_type), the   *)
(* form-data aggregation (TSFCFormData, TSFCIntegralData) and the driver   *)
(* loop (compile_form, compile_integral).                                  *)
(*                                                                         *)
(* Python values are encoded as follows.  An int dimension d is the        *)
(* one-element sequence <<d>>, a tuple dimension (b, e) the sequence       *)
(* <<b, e>>, so that a dictionary keyed by one kind has no entry for the   *)
(* other.  A dict is a function; a missing key is a value outside its      *)
(* DOMAIN.  An exception is the string naming its Python class, "none"     *)
(* when nothing was raised.                                                *)
(***************************************************************************)
EXTENDS Integers, Sequences, FiniteSets, TLC

VARIABLES
    \* ---- lower_integral_type(fiat_cell, integral_type)
    fiat_cell,          \* argument: the FIAT reference cell
    integral_type,      \* argument: the classification string
    lower_pc,           \* "dim" | "ids" | "returned" | "raised"
    integration_dim,    \* local integration_dim (<<>> while unset)
    entity_ids,         \* local entity_ids (<<>> while unset)
    lower_raised,       \* the exception that left the function, or "none"
    \* ---- TSFCFormData.__init__(form_data_tuple, original_form, diagonal)
    form_data_tuple,    \* argument: the ufl.FormData records
    original_form,      \* argument, kept as self.original_form
    form_pc,            \* "arguments" | "reduce" | "renumber" | "subspaces" |
                        \* "group" | "build" | "done" | "raised" | "idle"
    form_raised,        \* the exception that left the constructor, or "none"
    arguments,          \* self.arguments
    reduced_coefficients,            \* self.reduced_coefficients
    function_replace_map,            \* self.function_replace_map
    original_coefficient_positions,  \* self.original_coefficient_positions
    reduced_subspaces,               \* self.reduced_subspaces
    original_subspace_positions,     \* self.original_subspace_positions
    subspace_replace_map,            \* self.subspace_replace_map
    intg_data_dict,     \* local dict, as the sequence of its entries
    form_data_dict,     \* local dict, as the sequence of its entries
    scanned,            \* how many (record, integral data) pairs the scan has passed
    integral_data,      \* integral_data_list, self.integral_data at the end
    \* ---- compile_form(form, prefix, parameters, interface, diagonal) and the
    \* ---- compile_integral it calls for every integral data
    form,               \* argument: the UFL form, as its integrals and its cell
    prefix,             \* argument: the pieces of the prefix string
    parameters,         \* argument, then the preprocessed parameters
    interface,          \* the backend: the classifications it has no kernel for
    diagonal,           \* argument: whether the diagonal of a rank-2 tensor is built
    compile_pc,         \* the statement compile_form / compile_integral is at
    compile_raised,     \* the exception that left compile_form, or "none"
    tsfc_form_data,     \* local of compile_form
    group,              \* how many integral data the loop of compile_form has taken
    calls,              \* the steps of the current compile_integral, in order
    builder,            \* the builder of the current compile_integral
    kernel_config,      \* local of compile_integral
    functions,          \* local of compile_integral
    integral,           \* how many integrals the loop of compile_integral has taken
    params,             \* local of the loop of compile_integral
    expressions,        \* local of the loop, then reps
    kernel,             \* local of compile_form
    kernels,            \* local of compile_form, its return value
    \* ---- set_quad_rule(params, cell, integral_type, functions)
    quad_args,          \* the arguments as they were at the call
    quad_params,        \* the dict params, which the function changes in place
    quad_pc,            \* "degree" | "rule" | "validate" | "returned" | "raised" | "idle"
    quadrature_degree,  \* local quadrature_degree (PyNone while unset)
    quad_rule,          \* local quad_rule (PyNone while unset)
    quad_raised,        \* the exception that left the function, or "none"
    quad_warned,        \* whether logger.warning was called
    quad_made           \* whether make_quadrature was called

lower_vars == <<fiat_cell, integral_type, lower_pc, integration_dim,
                entity_ids, lower_raised>>

form_inputs == <<form_data_tuple, original_form>>

form_coefficients == <<reduced_coefficients, function_replace_map,
                       original_coefficient_positions>>

form_subspaces == <<reduced_subspaces, original_subspace_positions, subspace_replace_map>>

form_groups == <<intg_data_dict, form_data_dict, scanned>>

form_vars == <<form_inputs, form_pc, form_raised, arguments, form_coefficients,
               form_subspaces, form_groups, integral_data>>

compile_inputs == <<form, prefix, interface, diagonal>>

compile_integral_vars == <<calls, builder, kernel_config, functions, integral, params,
                           expressions>>

compile_vars == <<compile_inputs, parameters, compile_pc, compile_raised, tsfc_form_data,
                  group, compile_integral_vars, kernel, kernels>>

quad_vars == <<quad_args, quad_params, quad_pc, quadrature_degree, quad_rule, quad_raised,
               quad_warned, quad_made>>

vars == <<lower_vars, form_vars, compile_vars, quad_vars>>

-----------------------------------------------------------------------------
(* Bounds *)

\* Largest simplex dimension drawn as a reference cell.
MaxCellDim == 3

\* Coefficient and subspace counts range over 0..MaxCount.
MaxCount == 2

\* Most ufl.FormData records in one form_data_tuple.
MaxRecords == 2

\* Most integrals of a request, over all its records, when the grouping varies.
MaxItems == 3

\* Most integrals of a request when the coefficients or subspaces vary.
MaxCoefItems == 2

\* Most integrals of a form handed to compile_form.
MaxFormItems == 2

\* Most integrals of a form when its arguments and diagonal vary.
MaxConfigItems == 2

-----------------------------------------------------------------------------
(* Reference cells, as far as lower_integral_type reads them:              *)
(* isinstance(cell, TensorProductCell), get_dimension() and, of            *)
(* get_topology(), the number of entities under each dimension key.        *)

RECURSIVE Binomial(_, _)
Binomial(n, k) ==
    IF k = 0 THEN 1
    ELSE IF k > n THEN 0
    ELSE (Binomial(n - 1, k - 1) * n) \div k

\* A simplex of dimension d: get_dimension() is the int d, the topology is
\* keyed by the ints 0..d.
Simplex(d) ==
    [ tp       |-> FALSE,
      dim      |-> <<d>>,
      topology |-> [k \in {<<j>> : j \in 0..d} |-> Binomial(d + 1, k[1] + 1)] ]

\* The flattened quadrilateral: an int dimension, not a TensorProductCell.
Quadrilateral ==
    [ tp       |-> FALSE,
      dim      |-> <<2>>,
      topology |-> [k \in {<<0>>, <<1>>, <<2>>} |-> IF k[1] = 2 THEN 1 ELSE 4] ]

\* TensorProductCell(A, B): get_dimension() is the pair of the factors'
\* dimensions (driver.py unpacks it as basedim, extrdim) and the topology is
\* keyed by pairs (driver.py looks up (basedim - 1, 1) and (basedim, 0)).
TensorProductCell(A, B) ==
    [ tp       |-> TRUE,
      dim      |-> A.dim \o B.dim,
      topology |-> [k \in {a \o b : a \in DOMAIN A.topology, b \in DOMAIN B.topology}
                      |-> A.topology[<<k[1]>>] * B.topology[<<k[2]>>]] ]

\* The cells handed to lower_integral_type: simplices, the quadrilateral and
\* the extruded cells base x interval (the code asserts extrdim == 1).
BaseCells == {Simplex(d) : d \in 1..MaxCellDim} \cup {Quadrilateral}

ExtrudedCells == {TensorProductCell(A, Simplex(1)) :
                    A \in {Simplex(d) : d \in 1..(MaxCellDim - 1)} \cup {Quadrilateral}}

Cells == BaseCells \cup ExtrudedCells

-----------------------------------------------------------------------------
(* lower_integral_type *)

vert_facet_types == {"exterior_facet_vert", "interior_facet_vert"}

horiz_facet_types == {"exterior_facet_bottom", "exterior_facet_top", "interior_facet_horiz"}

\* The classifications lower_integral_type has a branch for.
DocumentedTypes ==
    {"cell", "exterior_facet", "interior_facet", "vertex"}
        \cup vert_facet_types \cup horiz_facet_types

\* Classification strings without a branch.
OtherTypes == {"custom", "facet", "exterior_facet_horiz"}

IntegralTypes == DocumentedTypes \cup OtherTypes

\* IntegrationDim without the product-cell test of the facet types.
IntegrationDimMissingTPCheck(cell, itype) ==
    LET dim == cell.dim IN
    IF itype = "cell" THEN [raised |-> "none", dim |-> dim]
    ELSE IF itype \in {"exterior_facet", "interior_facet"}
        THEN [raised |-> "none", dim |-> <<dim[1] - 1>>]
    ELSE IF itype = "vertex" THEN [raised |-> "none", dim |-> <<0>>]
    ELSE IF itype \in vert_facet_types \cup horiz_facet_types
        THEN IF ~cell.tp THEN [raised |-> "ValueError", dim |-> <<>>]
             ELSE IF itype \in vert_facet_types
                  THEN [raised |-> "none", dim |-> <<dim[1] - 1, 1>>]
                  ELSE [raised |-> "none", dim |-> <<dim[1], 0>>]
    ELSE [raised |-> "NotImplementedError", dim |-> <<>>]

\* Lines 534-555: the if/elif chain computing integration_dim.
\* The result is [raised, dim]; dim is <<>> when an exception leaves the chain.
IntegrationDim(cell, itype) ==
    LET dim == cell.dim IN
    IF itype = "cell" THEN [raised |-> "none", dim |-> dim]
    ELSE IF itype \in {"exterior_facet", "interior_facet"}
        THEN IF cell.tp THEN [raised |-> "ValueError", dim |-> <<>>]
             ELSE [raised |-> "none", dim |-> <<dim[1] - 1>>]
    ELSE IF itype = "vertex" THEN [raised |-> "none", dim |-> <<0>>]
    ELSE IF itype \in vert_facet_types \cup horiz_facet_types
        THEN IF ~cell.tp THEN [raised |-> "ValueError", dim |-> <<>>]
             ELSE IF itype \in vert_facet_types
                  THEN [raised |-> "none", dim |-> <<dim[1] - 1, 1>>]
                  ELSE [raised |-> "none", dim |-> <<dim[1], 0>>]
    ELSE [raised |-> "NotImplementedError", dim |-> <<>>]

\* list(range(n)) as a sequence: <<0, ..., n-1>>.
Range(n) == [i \in 1..n |-> i - 1]

\* EntityIds with the ids of the bottom and the top facet exchanged.
EntityIdsSwapped(cell, itype, idim) ==
    IF itype = "exterior_facet_bottom" THEN [raised |-> "none", ids |-> <<1>>]
    ELSE IF itype = "exterior_facet_top" THEN [raised |-> "none", ids |-> <<0>>]
    ELSE IF idim \in DOMAIN cell.topology
        THEN [raised |-> "none", ids |-> Range(cell.topology[idim])]
        ELSE [raised |-> "KeyError", ids |-> <<>>]

\* Lines 557-562: the entity-id list.  The lookup get_topology()[integration_dim]
\* raises KeyError when the topology has no such key.
EntityIds(cell, itype, idim) ==
    IF itype = "exterior_facet_bottom" THEN [raised |-> "none", ids |-> <<0>>]
    ELSE IF itype = "exterior_facet_top" THEN [raised |-> "none", ids |-> <<1>>]
    ELSE IF idim \in DOMAIN cell.topology
        THEN [raised |-> "none", ids |-> Range(cell.topology[idim])]
        ELSE [raised |-> "KeyError", ids |-> <<>>]

\* The whole function, as its callers see it.
lower_integral_type(cell, itype) ==
    LET d == IntegrationDim(cell, itype) IN
    IF d.raised # "none"
        THEN [raised |-> d.raised, integration_dim |-> <<>>, entity_ids |-> <<>>]
        ELSE LET e == EntityIds(cell, itype, d.dim) IN
             IF e.raised # "none"
                 THEN [raised |-> e.raised, integration_dim |-> <<>>, entity_ids |-> <<>>]
                 ELSE [raised |-> "none", integration_dim |-> d.dim, entity_ids |-> e.ids]

\* set_quad_rule is not running.
QuadIdle ==
    /\ quad_args = <<>>
    /\ quad_params = <<>>
    /\ quad_pc = "idle"
    /\ quadrature_degree = <<>>
    /\ quad_rule = <<>>
    /\ quad_raised = "none"
    /\ quad_warned = FALSE
    /\ quad_made = FALSE

\* compile_form is not running.
CompileIdle ==
    /\ form = <<>>
    /\ prefix = <<>>
    /\ parameters = <<>>
    /\ interface = {}
    /\ diagonal = FALSE
    /\ compile_pc = "idle"
    /\ compile_raised = "none"
    /\ tsfc_form_data = <<>>
    /\ group = 0
    /\ calls = <<>>
    /\ builder = <<>>
    /\ kernel_config = <<>>
    /\ functions = <<>>
    /\ integral = 0
    /\ params = <<>>
    /\ expressions = <<>>
    /\ kernel = <<>>
    /\ kernels = <<>>

\* The constructor is not running.
FormIdle ==
    /\ form_data_tuple = <<>>
    /\ original_form = <<>>
    /\ form_pc = "idle"
    /\ form_raised = "none"
    /\ arguments = <<>>
    /\ reduced_coefficients = <<>>
    /\ function_replace_map = <<>>
    /\ original_coefficient_positions = <<>>
    /\ reduced_subspaces = <<>>
    /\ original_subspace_positions = <<>>
    /\ subspace_replace_map = <<>>
    /\ intg_data_dict = <<>>
    /\ form_data_dict = <<>>
    /\ scanned = 0
    /\ integral_data = <<>>

LowerInit ==
    /\ FormIdle
    /\ CompileIdle
    /\ QuadIdle
    /\ fiat_cell \in Cells
    /\ integral_type \in IntegralTypes
    /\ lower_pc = "dim"
    /\ integration_dim = <<>>
    /\ entity_ids = <<>>
    /\ lower_raised = "none"

\* Lines 534-555.
LowerDimension ==
    /\ lower_pc = "dim"
    /\ LET d == IntegrationDim(fiat_cell, integral_type) IN
       /\ integration_dim' = d.dim
       /\ lower_raised' = d.raised
       /\ lower_pc' = IF d.raised = "none" THEN "ids" ELSE "raised"
    /\ UNCHANGED <<fiat_cell, integral_type, entity_ids, form_vars, compile_vars, quad_vars>>

\* Lines 557-564.
LowerEntities ==
    /\ lower_pc = "ids"
    /\ LET e == EntityIds(fiat_cell, integral_type, integration_dim) IN
       /\ entity_ids' = e.ids
       /\ lower_raised' = e.raised
       /\ lower_pc' = IF e.raised = "none" THEN "returned" ELSE "raised"
    /\ UNCHANGED <<fiat_cell, integral_type, integration_dim, form_vars, compile_vars, quad_vars>>

LowerNext == LowerDimension \/ LowerEntities

-----------------------------------------------------------------------------
(* UFL objects read by TSFCFormData and TSFCIntegralData.                  *)
(*                                                                         *)
(* A Coefficient is its function space and its count, and two              *)
(* Coefficients are equal when both agree; driver.py line 96 builds the    *)
(* canonical ones with Coefficient(space, count=i).  An integrand is the   *)
(* sequence of its terminals, and ufl.replace maps each terminal that is   *)
(* a key of the replacement dict to its value, in one pass.                *)

Coefficient(space, count) == [kind |-> "Coefficient", space |-> space, count |-> count]

Subspace(space, count) == [kind |-> "Subspace", space |-> space, count |-> count]

\* A terminal that no replacement map has as a key.
Literal(n) == [kind |-> "Literal", space |-> "R", count |-> n]

\* sorted(S, key=lambda c: c.count()) for a set whose counts are distinct.
RECURSIVE SortByCount(_)
SortByCount(S) ==
    IF S = {} THEN <<>>
    ELSE LET m == CHOOSE x \in S : \A y \in S : x.count <= y.count
         IN <<m>> \o SortByCount(S \ {m})

Elems(seq) == {seq[i] : i \in DOMAIN seq}

\* list.index(x): the 0-based position of the first x in seq.
IndexOf(seq, x) == (CHOOSE i \in DOMAIN seq : seq[i] = x /\ \A j \in 1..(i - 1) : seq[j] # x) - 1

\* The elements of seq in order of first occurrence.
Dedup(seq) ==
    LET F[i \in 0..Len(seq)] ==
            IF i = 0 THEN <<>>
            ELSE IF \E j \in 1..(i - 1) : seq[j] = seq[i] THEN F[i - 1]
            ELSE Append(F[i - 1], seq[i])
    IN F[Len(seq)]

\* Concatenation of a sequence of sequences.
Flatten(ss) ==
    LET F[i \in 0..Len(ss)] == IF i = 0 THEN <<>> ELSE F[i - 1] \o ss[i]
    IN F[Len(ss)]

\* Replace substituting nothing.
ReplaceKeepsOriginal(integrand, mapping) == integrand

\* ufl.replace(integrand, mapping)
Replace(integrand, mapping) ==
    [k \in DOMAIN integrand |->
        IF integrand[k] \in DOMAIN mapping THEN mapping[integrand[k]] ELSE integrand[k]]

-----------------------------------------------------------------------------
(* TSFCFormData.__init__ and TSFCIntegralData.__init__, as operators on    *)
(* the tuple of ufl.FormData records and the original form.                *)

\* ArgumentTuples reading the first record only.
ArgumentTuplesOfFirst(fdt) == {fdt[1].arguments}

\* Lines 80-81: set(tuple(fd.preprocessed_form.arguments() for fd in ...)).
ArgumentTuples(fdt) == {fdt[i].arguments : i \in DOMAIN fdt}

\* ReducedCoefficients without the sort: first occurrence in input order.
ReducedCoefficientsInputOrder(fdt) ==
    Dedup(Flatten([i \in DOMAIN fdt |-> fdt[i].reduced_coefficients]))

\* Lines 84-85: the union of the records' reduced coefficients, sorted by count.
ReducedCoefficients(fdt) ==
    SortByCount(UNION {Elems(fdt[i].reduced_coefficients) : i \in DOMAIN fdt})

\* FunctionReplaceMap taking the function space from the last record whose
\* function_replace_map has the coefficient.
FunctionReplaceMapLastRecord(fdt, reduced) ==
    LET Has(func) == {r \in DOMAIN fdt : func \in DOMAIN fdt[r].function_replace_map}
        Last(func) == CHOOSE r \in Has(func) : \A q \in Has(func) : r >= q
    IN [func \in {f \in Elems(reduced) : Has(f) # {}} |->
            Coefficient(fdt[Last(func)].function_replace_map[func].space,
                        IndexOf(reduced, func))]

\* Lines 91-98: for the i-th reduced coefficient, the first record whose
\* function_replace_map has it gives the function space; the count is i.
FunctionReplaceMap(fdt, reduced) ==
    LET Has(func) == {r \in DOMAIN fdt : func \in DOMAIN fdt[r].function_replace_map}
        First(func) == CHOOSE r \in Has(func) : \A q \in Has(func) : r <= q
    IN [func \in {f \in Elems(reduced) : Has(f) # {}} |->
            Coefficient(fdt[First(func)].function_replace_map[func].space,
                        IndexOf(reduced, func))]

\* Lines 100-101: the positions, in original_form.coefficients(), of the
\* coefficients that are reduced coefficients.
OriginalCoefficientPositions(original, reduced) ==
    LET cs == original.coefficients
        F[i \in 0..Len(cs)] ==
            IF i = 0 THEN <<>>
            ELSE IF cs[i] \in Elems(reduced) THEN Append(F[i - 1], i - 1)
            ELSE F[i - 1]
    IN F[Len(cs)]

\* Line 116.
Key(intg_data) == <<intg_data.domain, intg_data.integral_type, intg_data.subdomain_id>>

\* SetDefaultAppend opening a new entry for every value.
SetDefaultAppendNewEntry(dict, key, v) == Append(dict, [key |-> key, list |-> <<v>>])

\* Lines 117-118: d.setdefault(key, []).append(v) on an insertion-ordered
\* dict, kept as the sequence of its (key, list) entries.
SetDefaultAppend(dict, key, v) ==
    IF \E k \in DOMAIN dict : dict[k].key = key
        THEN [k \in DOMAIN dict |->
                IF dict[k].key = key THEN [dict[k] EXCEPT !.list = Append(@, v)]
                ELSE dict[k]]
        ELSE Append(dict, [key |-> key, list |-> <<v>>])

\* Lines 111-112: the (record, integral data) pairs in the order of the scan.
ScanOrder(fdt) ==
    Flatten([i \in DOMAIN fdt |-> [j \in DOMAIN fdt[i].integral_data |-> <<i, j>>]])

\* Lines 109-118 after the first n pairs of the scan: [intg, form], the
\* two dicts.
Grouped(fdt, n) ==
    LET so == ScanOrder(fdt)
        G[k \in 0..n] ==
            IF k = 0 THEN [intg |-> <<>>, form |-> <<>>]
            ELSE LET fd == fdt[so[k][1]]
                     id == fd.integral_data[so[k][2]]
                 IN [intg |-> SetDefaultAppend(G[k - 1].intg, Key(id), id),
                     form |-> SetDefaultAppend(G[k - 1].form, Key(id), fd)]
    IN G[n]

\* Lines 147-153: the integrals of integral_data_tuple[0], each integrand
\* rewritten by the two replacements.
RewrittenIntegrals(integral_data_tuple, form_data, tsfc_data) ==
    LET intg_data == integral_data_tuple[1]
    IN [k \in DOMAIN intg_data.integrals |->
        [intg_data.integrals[k] EXCEPT !.integrand =
            Replace(Replace(@, tsfc_data.function_replace_map),
                    form_data.subspace_replace_map)]]

\* CoefficientNumbers reporting the index among the reduced coefficients.
CoefficientNumbersReducedIndex(fns, tsfc_data) ==
    [k \in DOMAIN fns |-> IndexOf(tsfc_data.reduced_coefficients, fns[k])]

\* Line 159.
CoefficientNumbers(fns, tsfc_data) ==
    [k \in DOMAIN fns |->
        tsfc_data.original_coefficient_positions[
            IndexOf(tsfc_data.reduced_coefficients, fns[k]) + 1]]

\* Lines 162 and 169: the entries of seq whose flag in enabled is set
\* (zip stops at the shorter of the two).
Enabled(seq, enabled) ==
    LET n == IF Len(seq) <= Len(enabled) THEN Len(seq) ELSE Len(enabled)
        F[i \in 0..n] ==
            IF i = 0 THEN <<>>
            ELSE IF enabled[i] THEN Append(F[i - 1], seq[i]) ELSE F[i - 1]
    IN F[n]

NoIntegralData ==
    [ domain |-> "", integral_type |-> "", subdomain_id |-> 0, domain_number |-> 0,
      integrals |-> <<>>, integral_coefficients |-> <<>>, coefficients |-> <<>>,
      coefficient_numbers |-> <<>>, original_subspaces |-> <<>>, subspaces |-> <<>>,
      subspace_numbers |-> <<>> ]

\* Lines 140-169: [raised, value].  A dict lookup of a missing key raises
\* KeyError, list.index of a missing element ValueError, a list subscript
\* past the end IndexError.
TSFCIntegralData(integral_data_tuple, form_data, tsfc_data) ==
    LET intg_data == integral_data_tuple[1]
        fns     == intg_data.integral_coefficients
        subspaces     == Enabled(form_data.reduced_subspaces, intg_data.enabled_subspaces)
        Fail(e)       == [raised |-> e, value |-> NoIntegralData]
    IN
    IF intg_data.domain \notin DOMAIN tsfc_data.original_form.domain_numbering
        THEN Fail("KeyError")
    ELSE IF \E k \in DOMAIN fns : fns[k] \notin DOMAIN tsfc_data.function_replace_map
        THEN Fail("KeyError")
    ELSE IF \E k \in DOMAIN fns : fns[k] \notin Elems(tsfc_data.reduced_coefficients)
        THEN Fail("ValueError")
    ELSE IF \E k \in DOMAIN fns :
                IndexOf(tsfc_data.reduced_coefficients, fns[k])
                    >= Len(tsfc_data.original_coefficient_positions)
        THEN Fail("IndexError")
    ELSE IF \E k \in DOMAIN subspaces : subspaces[k] \notin DOMAIN form_data.subspace_replace_map
        THEN Fail("KeyError")
    ELSE
    [ raised |-> "none",
      value  |->
        [ domain                |-> intg_data.domain,
          integral_type         |-> intg_data.integral_type,
          subdomain_id          |-> intg_data.subdomain_id,
          domain_number         |->
              tsfc_data.original_form.domain_numbering[intg_data.domain],
          integrals             |->
              RewrittenIntegrals(integral_data_tuple, form_data, tsfc_data),
          integral_coefficients |-> fns,
          coefficients          |->
              [k \in DOMAIN fns |-> tsfc_data.function_replace_map[fns[k]]],
          coefficient_numbers   |-> CoefficientNumbers(fns, tsfc_data),
          original_subspaces    |-> subspaces,
          subspaces             |->
              [k \in DOMAIN subspaces |-> form_data.subspace_replace_map[subspaces[k]]],
          subspace_numbers      |->
              Enabled(form_data.original_subspace_positions,
                      intg_data.enabled_subspaces) ] ]

\* What TSFCIntegralData reads of the TSFCFormData under construction.
FormDataSelf(original, reduced, replace_map, positions) ==
    [ original_form                  |-> original,
      reduced_coefficients           |-> reduced,
      function_replace_map           |-> replace_map,
      original_coefficient_positions |-> positions ]

\* Lines 120-125 for the first n keys: [raised, list].
IntegralDataList(dicts, self, n) ==
    LET L[k \in 0..n] ==
            IF k = 0 THEN [raised |-> "none", list |-> <<>>]
            ELSE IF L[k - 1].raised # "none" THEN L[k - 1]
            ELSE LET u == TSFCIntegralData(dicts.intg[k].list, dicts.form[k].list[1], self)
                 IN IF u.raised # "none" THEN [raised |-> u.raised, list |-> <<>>]
                    ELSE [raised |-> "none", list |-> Append(L[k - 1].list, u.value)]
    IN L[n]

\* The object a failed construction leaves nothing of.
NoFormData ==
    [ raised |-> "none", arguments |-> <<>>, reduced_coefficients |-> <<>>,
      function_replace_map |-> <<>>, original_coefficient_positions |-> <<>>,
      reduced_subspaces |-> <<>>, original_subspace_positions |-> <<>>,
      subspace_replace_map |-> <<>>, integral_data |-> <<>> ]

\* Lines 77-125: TSFCFormData(form_data_tuple, original_form, diagonal).
TSFCFormData(fdt, original) ==
    IF Cardinality(ArgumentTuples(fdt)) # 1
        THEN [NoFormData EXCEPT !.raised = "ValueError"]
    ELSE
    LET reduced   == ReducedCoefficients(fdt)
        map       == FunctionReplaceMap(fdt, reduced)
        positions == OriginalCoefficientPositions(original, reduced)
        dicts     == Grouped(fdt, Len(ScanOrder(fdt)))
        units     == IntegralDataList(dicts, FormDataSelf(original, reduced, map, positions),
                                      Len(dicts.intg))
    IN IF units.raised # "none" THEN [NoFormData EXCEPT !.raised = units.raised]
       ELSE [ raised                         |-> "none",
              arguments                      |-> CHOOSE a \in ArgumentTuples(fdt) : TRUE,
              reduced_coefficients           |-> reduced,
              function_replace_map           |-> map,
              original_coefficient_positions |-> positions,
              reduced_subspaces              |-> fdt[1].reduced_subspaces,
              original_subspace_positions    |-> fdt[1].original_subspace_positions,
              subspace_replace_map           |-> fdt[1].subspace_replace_map,
              integral_data                  |-> units.list ]

-----------------------------------------------------------------------------
(* The ufl.FormData records TSFCFormData is given.  They are built as      *)
(* compute_form_data builds them from the integrals of a split form: the   *)
(* integrals of a record are grouped by (domain, integral_type,            *)
(* subdomain_id), reduced_coefficients is the count-sorted union of the    *)
(* coefficients of its integrals, function_replace_map renumbers them by   *)
(* their position in that list, into the function space tspace; the        *)
(* subspaces are renumbered likewise, into a space of their own.           *)

\* original_form: coefficients() is sorted by count; its subspaces have the
\* counts 1..MaxCount+1.
OriginalForm(orig) ==
    [ coefficients     |-> SortByCount({Coefficient("V", c) : c \in orig}),
      subspaces        |-> [i \in 1..(MaxCount + 1) |-> Subspace("V", i)],
      domain_numbering |-> [d \in {"d0", "d1"} |-> IF d = "d0" THEN 0 ELSE 1] ]

\* The integral written from item i: a literal factor, then the item's
\* coefficient and subspace, if any.
ItemIntegral(items, i) ==
    [ integrand |->
        <<Literal(i)>>
          \o (IF items[i].coef >= 0 THEN <<Coefficient("V", items[i].coef)>> ELSE <<>>)
          \o (IF items[i].sub >= 0 THEN <<Subspace("V", items[i].sub)>> ELSE <<>>),
      metadata  |-> items[i].metadata ]

OfKind(seq, kind) == SelectSeq(seq, LAMBDA t : t.kind = kind)

FormData(items, r, tspace, args, original) ==
    LET mine      == SelectSeq([i \in DOMAIN items |-> i], LAMBDA i : items[i].rec = r)
        keys      == Dedup([k \in DOMAIN mine |-> items[mine[k]].key])
        terms     == Flatten([k \in DOMAIN mine |-> ItemIntegral(items, mine[k]).integrand])
        reduced   == SortByCount(Elems(OfKind(terms, "Coefficient")))
        subspaces == SortByCount(Elems(OfKind(terms, "Subspace")))
        IntegralData(key) ==
            LET its   == SelectSeq(mine, LAMBDA i : items[i].key = key)
                intgs == [k \in DOMAIN its |-> ItemIntegral(items, its[k])]
                used  == Flatten([k \in DOMAIN intgs |-> intgs[k].integrand])
            IN [ domain                |-> key[1],
                 integral_type         |-> key[2],
                 subdomain_id          |-> key[3],
                 integrals             |-> intgs,
                 integral_coefficients |-> Dedup(OfKind(used, "Coefficient")),
                 enabled_subspaces     |->
                     [k \in DOMAIN subspaces |-> subspaces[k] \in Elems(used)] ]
    IN [ arguments                   |-> args,
         reduced_coefficients        |-> reduced,
         function_replace_map        |->
             [f \in Elems(reduced) |-> Coefficient(tspace, IndexOf(reduced, f))],
         reduced_subspaces           |-> subspaces,
         original_subspace_positions |->
             [k \in DOMAIN subspaces |-> IndexOf(original.subspaces, subspaces[k])],
         subspace_replace_map        |->
             [c \in Elems(subspaces) |-> Subspace("W", IndexOf(subspaces, c))],
         integral_data               |-> [k \in DOMAIN keys |-> IntegralData(keys[k])] ]

\* One aggregation request: the original form's coefficient counts, the
\* integrals with the record each belongs to, and per record the function
\* space of its renumbered coefficients and its argument tuple.
FormDataTuple(sc) ==
    [r \in 1..sc.nrec |->
        FormData(sc.items, r, sc.tspace[r], sc.arguments[r], OriginalForm(sc.orig))]

Keys == {<<"d0", "cell", 0>>, <<"d0", "cell", 1>>, <<"d0", "exterior_facet", 0>>,
         <<"d1", "cell", 0>>}

ArgumentsA == <<"v", "u">>

ArgumentsB == <<"v">>

NoMetadata == [k \in {} |-> 0]

\* Item sequences of length n over the given choices, the records' items in
\* record order and no record empty.
ItemSeqs(n, nrec, keys, coefs, subs, metadata) ==
    {its \in [1..n -> [rec : 1..nrec, key : keys, coef : coefs, sub : subs,
                       metadata : metadata]] :
        /\ \A i \in 1..(n - 1) : its[i].rec <= its[i + 1].rec
        /\ \A r \in 1..nrec : \E i \in 1..n : its[i].rec = r}

\* Requests that vary the grouping: the keys of the integrals and the
\* argument tuples of the records after the first.
GroupingRequestsOf(nrec, n) ==
    {[nrec |-> nrec, orig |-> 0..MaxCount, items |-> its,
      tspace |-> [r \in 1..nrec |-> "W"], arguments |-> args] :
        its \in ItemSeqs(n, nrec, Keys, {MaxCount}, {-1}, {NoMetadata}),
        args \in {a \in [1..nrec -> {ArgumentsA, ArgumentsB}] : a[1] = ArgumentsA}}

GroupingRequests ==
    UNION {GroupingRequestsOf(nrec, n) : nrec \in 1..MaxRecords, n \in 1..MaxItems}

\* The key of the integrals of record r when records do not share keys.
KeyOfRecord(r) == <<"d0", "cell", r>>

KeyedByRecord(its, same) ==
    [i \in DOMAIN its |-> [its[i] EXCEPT !.key = IF same THEN @ ELSE KeyOfRecord(its[i].rec)]]

\* Requests that vary the coefficients: the original form's coefficients,
\* the coefficient of each integral, the function spaces of the renumbered
\* coefficients, and whether the records share one key.
CoefficientRequestsOf(nrec, n, orig) ==
    {[nrec |-> nrec, orig |-> orig, items |-> KeyedByRecord(its, same),
      tspace |-> ts, arguments |-> [r \in 1..nrec |-> ArgumentsA]] :
        its \in ItemSeqs(n, nrec, {<<"d0", "cell", 0>>}, orig, {-1}, {NoMetadata}),
        ts \in [1..nrec -> {"V", "W"}], same \in BOOLEAN}

CoefficientRequests ==
    UNION {CoefficientRequestsOf(nrec, n, orig) :
            nrec \in 1..MaxRecords, n \in 1..MaxCoefItems,
            orig \in (SUBSET (0..MaxCount)) \ {{}}}

\* Requests that vary the subspaces of the integrals.
SubspaceRequestsOf(nrec, n) ==
    {[nrec |-> nrec, orig |-> {MaxCount}, items |-> KeyedByRecord(its, same),
      tspace |-> [r \in 1..nrec |-> "W"], arguments |-> [r \in 1..nrec |-> ArgumentsA]] :
        its \in ItemSeqs(n, nrec, {<<"d0", "cell", 0>>}, {-1, MaxCount},
                         {-1} \cup 1..(MaxCount + 1), {NoMetadata}),
        same \in BOOLEAN}

SubspaceRequests ==
    UNION {SubspaceRequestsOf(nrec, n) : nrec \in 1..MaxRecords, n \in 1..MaxCoefItems}

Requests == GroupingRequests \cup CoefficientRequests \cup SubspaceRequests

-----------------------------------------------------------------------------
(* TSFCFormData.__init__, step by step *)

\* lower_integral_type is not running.
LowerIdle ==
    /\ fiat_cell = <<>>
    /\ integral_type = ""
    /\ lower_pc = "idle"
    /\ integration_dim = <<>>
    /\ entity_ids = <<>>
    /\ lower_raised = "none"

FormInit ==
    /\ LowerIdle
    /\ CompileIdle
    /\ QuadIdle
    /\ \E sc \in Requests :
        /\ form_data_tuple = FormDataTuple(sc)
        /\ original_form = OriginalForm(sc.orig)
    /\ form_pc = "arguments"
    /\ form_raised = "none"
    /\ arguments = <<>>
    /\ reduced_coefficients = <<>>
    /\ function_replace_map = <<>>
    /\ original_coefficient_positions = <<>>
    /\ reduced_subspaces = <<>>
    /\ original_subspace_positions = <<>>
    /\ subspace_replace_map = <<>>
    /\ intg_data_dict = <<>>
    /\ form_data_dict = <<>>
    /\ scanned = 0
    /\ integral_data = <<>>

\* Lines 79-83: the unpacking of the set of argument tuples.
CheckArguments ==
    /\ form_pc = "arguments"
    /\ IF Cardinality(ArgumentTuples(form_data_tuple)) = 1
          THEN /\ arguments' = (CHOOSE a \in ArgumentTuples(form_data_tuple) : TRUE)
               /\ form_pc' = "reduce"
               /\ form_raised' = "none"
          ELSE /\ arguments' = arguments
               /\ form_pc' = "raised"
               /\ form_raised' = "ValueError"
    /\ UNCHANGED <<form_inputs, form_coefficients, form_subspaces, form_groups,
                   integral_data, lower_vars, compile_vars, quad_vars>>

\* Lines 84-85.
ReduceCoefficients ==
    /\ form_pc = "reduce"
    /\ reduced_coefficients' = ReducedCoefficients(form_data_tuple)
    /\ form_pc' = "renumber"
    /\ UNCHANGED <<form_inputs, form_raised, arguments, function_replace_map,
                   original_coefficient_positions, form_subspaces, form_groups,
                   integral_data, lower_vars, compile_vars, quad_vars>>

\* Lines 91-102.
Renumber ==
    /\ form_pc = "renumber"
    /\ function_replace_map' = FunctionReplaceMap(form_data_tuple, reduced_coefficients)
    /\ original_coefficient_positions' =
            OriginalCoefficientPositions(original_form, reduced_coefficients)
    /\ form_pc' = "subspaces"
    /\ UNCHANGED <<form_inputs, form_raised, arguments, reduced_coefficients,
                   form_subspaces, form_groups, integral_data, lower_vars, compile_vars, quad_vars>>

\* Lines 104-110.
TakeSubspaces ==
    /\ form_pc = "subspaces"
    /\ reduced_subspaces' = form_data_tuple[1].reduced_subspaces
    /\ original_subspace_positions' = form_data_tuple[1].original_subspace_positions
    /\ subspace_replace_map' = form_data_tuple[1].subspace_replace_map
    /\ form_pc' = IF Len(ScanOrder(form_data_tuple)) = 0 THEN "done" ELSE "group"
    /\ UNCHANGED <<form_inputs, form_raised, arguments, form_coefficients, form_groups,
                   integral_data, lower_vars, compile_vars, quad_vars>>

\* Lines 111-118, one (record, integral data) pair of the scan.
GroupIntegralData ==
    /\ form_pc = "group"
    /\ LET pair == ScanOrder(form_data_tuple)[scanned + 1]
           fd   == form_data_tuple[pair[1]]
           id   == fd.integral_data[pair[2]]
       IN /\ intg_data_dict' = SetDefaultAppend(intg_data_dict, Key(id), id)
          /\ form_data_dict' = SetDefaultAppend(form_data_dict, Key(id), fd)
    /\ scanned' = scanned + 1
    /\ form_pc' = IF scanned + 1 = Len(ScanOrder(form_data_tuple)) THEN "build" ELSE "group"
    /\ UNCHANGED <<form_inputs, form_raised, arguments, form_coefficients, form_subspaces,
                   integral_data, lower_vars, compile_vars, quad_vars>>

\* Lines 120-125, one key of intg_data_dict: the TSFCIntegralData of its
\* records, built from the first of them.
BuildIntegralData ==
    /\ form_pc = "build"
    /\ LET k == Len(integral_data) + 1
           u == TSFCIntegralData(intg_data_dict[k].list, form_data_dict[k].list[1],
                                 FormDataSelf(original_form, reduced_coefficients,
                                              function_replace_map,
                                              original_coefficient_positions))
       IN IF u.raised # "none"
             THEN /\ form_raised' = u.raised
                  /\ form_pc' = "raised"
                  /\ integral_data' = integral_data
             ELSE /\ form_raised' = "none"
                  /\ integral_data' = Append(integral_data, u.value)
                  /\ form_pc' = IF k = Len(intg_data_dict) THEN "done" ELSE "build"
    /\ UNCHANGED <<form_inputs, arguments, form_coefficients, form_subspaces, form_groups,
                   lower_vars, compile_vars, quad_vars>>

FormNext ==
    \/ CheckArguments
    \/ ReduceCoefficients
    \/ Renumber
    \/ TakeSubspaces
    \/ GroupIntegralData
    \/ BuildIntegralData

SpecForm == FormInit /\ [][FormNext]_vars

-----------------------------------------------------------------------------
(* Lines 79-102 of TSFCFormData.__init__ over records whose                *)
(* function_replace_map need not have all their reduced coefficients       *)

\* The records with the entries of some coefficients taken out of their
\* function_replace_map: without[r] is the set taken out of record r.
WithoutEntries(fdt, without) ==
    [r \in DOMAIN fdt |->
        [fdt[r] EXCEPT !.function_replace_map =
            [f \in DOMAIN @ \ without[r] |-> @[f]]]]

\* The sets of entries a request is tried without: for every record none,
\* or the entry of the coefficient of count 0.
Without(sc) == [1..sc.nrec -> {{}, {Coefficient("V", 0)}}]

RenumberInit ==
    /\ LowerIdle
    /\ CompileIdle
    /\ QuadIdle
    /\ \E sc \in CoefficientRequests : \E without \in Without(sc) :
        /\ form_data_tuple = WithoutEntries(FormDataTuple(sc), without)
        /\ original_form = OriginalForm(sc.orig)
    /\ form_pc = "arguments"
    /\ form_raised = "none"
    /\ arguments = <<>>
    /\ reduced_coefficients = <<>>
    /\ function_replace_map = <<>>
    /\ original_coefficient_positions = <<>>
    /\ reduced_subspaces = <<>>
    /\ original_subspace_positions = <<>>
    /\ subspace_replace_map = <<>>
    /\ intg_data_dict = <<>>
    /\ form_data_dict = <<>>
    /\ scanned = 0
    /\ integral_data = <<>>

RenumberNext ==
    \/ CheckArguments
    \/ ReduceCoefficients
    \/ Renumber

SpecRenumber == RenumberInit /\ [][RenumberNext]_vars

SpecLower == LowerInit /\ [][LowerNext]_vars

-----------------------------------------------------------------------------
(* Python values held by the parameter dicts.  A dict is a function from   *)
(* its keys; every value is a record of one shape, so that values of       *)
(* different Python classes can be compared.                               *)

PyNone == [class |-> "NoneType", str |-> "", int |-> 0, cell |-> <<>>]

PyStr(s) == [class |-> "str", str |-> s, int |-> 0, cell |-> <<>>]

PyInt(n) == [class |-> "int", str |-> "", int |-> n, cell |-> <<>>]

\* make_quadrature(integration_cell, degree): an AbstractQuadratureRule.
QuadratureRule(cell, degree) ==
    [class |-> "QuadratureRule", str |-> "", int |-> degree, cell |-> cell]

\* d.get(key)
Get(d, key) == IF key \in DOMAIN d THEN d[key] ELSE PyNone

\* d.update(e), as the dict it leaves
Update(d, e) == [k \in DOMAIN d \cup DOMAIN e |-> IF k \in DOMAIN e THEN e[k] ELSE d[k]]

\* del d[key]
Del(d, key) == [k \in DOMAIN d \ {key} |-> d[k]]

\* d[key] = v
SetItem(d, key, v) == [k \in DOMAIN d \cup {key} |-> IF k = key THEN v ELSE d[k]]

\* tsfc.parameters.default_parameters(): the recognized options, the
\* quadrature options at their "derive" sentinel.
default_parameters ==
    [k \in {"quadrature_rule", "quadrature_degree", "scalar_type", "scalar_type_c"} |->
        IF k \in {"quadrature_rule", "quadrature_degree"} THEN PyStr("auto")
        ELSE PyStr("double")]

\* Lines 257-269.  The defaults hold both quadrature keys, so neither del
\* meets a missing key.
preprocess_parameters(ps) ==
    LET a == Update(default_parameters, ps)
        b == IF Get(a, "quadrature_degree")
                    \in {PyStr("auto"), PyStr("default"), PyNone, PyInt(-1), PyStr("-1")}
                THEN Del(a, "quadrature_degree") ELSE a
    IN IF Get(b, "quadrature_rule") \in {PyStr("auto"), PyStr("default"), PyNone}
          THEN Del(b, "quadrature_rule") ELSE b

-----------------------------------------------------------------------------
(* set_quad_rule *)

\* f.ufl_function_space().ufl_element().degree() by function space.
ElementDegree(space) == IF space = "W" THEN 2 ELSE 1

\* QuadratureDegree reading the estimate whether or not a degree is given.
QuadratureDegreeFromEstimate(ps, fns) ==
    IF "estimated_polynomial_degree" \notin DOMAIN ps
        THEN [raised |-> "KeyError", degree |-> PyNone, warned |-> FALSE]
    ELSE [ raised |-> "none",
           degree |-> ps["estimated_polynomial_degree"],
           warned |-> \A k \in DOMAIN fns :
                         ps["estimated_polynomial_degree"].int
                             > 10 * ElementDegree(fns[k].space) ]

\* Lines 330-340: [raised, degree, warned].  params["quadrature_degree"] if
\* the key is there; otherwise the estimate (KeyError if that is missing
\* too) and the warning when it exceeds ten times every function's degree.
QuadratureDegree(ps, fns) ==
    IF "quadrature_degree" \in DOMAIN ps
        THEN [raised |-> "none", degree |-> ps["quadrature_degree"], warned |-> FALSE]
    ELSE IF "estimated_polynomial_degree" \notin DOMAIN ps
        THEN [raised |-> "KeyError", degree |-> PyNone, warned |-> FALSE]
    ELSE [ raised |-> "none",
           degree |-> ps["estimated_polynomial_degree"],
           warned |-> \A k \in DOMAIN fns :
                         ps["estimated_polynomial_degree"].int
                             > 10 * ElementDegree(fns[k].space) ]

\* Lines 341-350: [raised, params, made].  A rule "default" is deleted; a
\* rule that is there is taken as it is; otherwise make_quadrature builds one
\* on the integration cell (made) and it is stored in params.
ResolveQuadRule(ps, cell, itype, degree) ==
    LET p1 == IF Get(ps, "quadrature_rule") = PyStr("default")
                 THEN Del(ps, "quadrature_rule") ELSE ps
        lowered == lower_integral_type(cell, itype)
    IN
    IF "quadrature_rule" \in DOMAIN p1
        THEN [raised |-> "none", params |-> p1, made |-> FALSE]
    ELSE IF lowered.raised # "none"
        THEN [raised |-> lowered.raised, params |-> p1, made |-> FALSE]
    ELSE [ raised |-> "none",
           params |-> SetItem(p1, "quadrature_rule",
                              QuadratureRule(lowered.integration_dim, degree.int)),
           made   |-> TRUE ]

\* Lines 352-354: isinstance(quad_rule, AbstractQuadratureRule).
IsQuadratureRule(rule) == rule.class = "QuadratureRule"

\* Lines 327-354: [raised, params, warned]; params is the dict as the call
\* leaves it, warned whether logger.warning was called.
set_quad_rule(ps, cell, itype, fns) ==
    LET d == QuadratureDegree(ps, fns) IN
    IF d.raised # "none" THEN [raised |-> d.raised, params |-> ps, warned |-> FALSE]
    ELSE
    LET r == ResolveQuadRule(ps, cell, itype, d.degree) IN
    IF r.raised # "none" THEN [raised |-> r.raised, params |-> r.params, warned |-> d.warned]
    ELSE [ raised |-> IF IsQuadratureRule(r.params["quadrature_rule"])
                         THEN "none" ELSE "ValueError",
           params |-> r.params,
           warned |-> d.warned ]

-----------------------------------------------------------------------------
(* The kernel configuration *)

DigitChars == <<"0", "1", "2", "3", "4", "5", "6", "7", "8", "9">>

RECURSIVE Digits(_)
Digits(n) ==
    IF n < 10 THEN <<DigitChars[n + 1]>>
    ELSE Digits(n \div 10) \o <<DigitChars[(n % 10) + 1]>>

\* "%s" % n for an int n, as the pieces of the string; "-" is a piece of
\* its own.
Str(n) == IF n < 0 THEN <<"-">> \o Digits(-n) ELSE Digits(n)

\* KernelName without the replacement of line 239.
KernelNameFormatted(pfx, itype, subdomain_id) ==
    pfx \o <<"_", itype, "_integral_">> \o Str(subdomain_id)

\* Lines 238-239, on the pieces of the strings: the format, then
\* replace("-", "_").
KernelName(pfx, itype, subdomain_id) ==
    LET formatted == pfx \o <<"_", itype, "_integral_">> \o Str(subdomain_id)
    IN [k \in DOMAIN formatted |-> IF formatted[k] = "-" THEN "_" ELSE formatted[k]]

\* The extent of the index of an argument's element: the arguments v and u
\* are in one space, w is in a larger one.
Extent(arg) == IF arg = "w" THEN 6 ELSE 3

\* Index handing out the true index where a dummy one is asked for.
IndexShared(arg, dummy) == [argument |-> arg, extent |-> Extent(arg), dummy |-> FALSE]

\* create_element(arg.ufl_element()).get_indices(), and the gem.Index of
\* the same extent allocated for it at line 276.
Index(arg, dummy) == [argument |-> arg, extent |-> Extent(arg), dummy |-> dummy]

\* integral_data.domain.ufl_cell() and as_fiat_cell of it: every domain of
\* the form has the form's cell.
ufl_cell(domain) == form.cell

\* Lines 303-324: [raised, value].
create_fem_config(bld, mesh, itype, multiindices, multiindices_dummy, scalar_type) ==
    LET lowered == lower_integral_type(ufl_cell(mesh), itype) IN
    IF lowered.raised # "none" THEN [raised |-> lowered.raised, value |-> <<>>]
    ELSE [ raised |-> "none",
           value  |-> [ ufl_cell                    |-> ufl_cell(mesh),
                        integral_type               |-> itype,
                        integration_dim             |-> lowered.integration_dim,
                        entity_ids                  |-> lowered.entity_ids,
                        argument_multiindices       |-> multiindices,
                        argument_multiindices_dummy |-> multiindices_dummy,
                        scalar_type                 |-> scalar_type ] ]

\* Lines 272-300: [raised, value].  With diagonal, the unpacking a, _ of
\* the multiindices raises ValueError unless there are two of them.
create_kernel_config(kernel_name, form_data, intg_data, ps, bld, diag) ==
    LET args  == form_data.arguments
        multiindices       == [k \in DOMAIN args |-> <<Index(args[k], FALSE)>>]
        multiindices_dummy == [k \in DOMAIN args |-> <<Index(args[k], TRUE)>>]
    IN
    IF diag /\ Len(args) # 2 THEN [raised |-> "ValueError", value |-> <<>>]
    ELSE
    LET fem == create_fem_config(bld, intg_data.domain, intg_data.integral_type,
                                 IF diag THEN <<multiindices[1], multiindices[1]>>
                                 ELSE multiindices,
                                 multiindices_dummy, ps["scalar_type"])
    IN
    IF fem.raised # "none" THEN [raised |-> fem.raised, value |-> <<>>]
    ELSE [ raised |-> "none",
           value  |-> [ name                |-> kernel_name,
                        integral_type       |-> intg_data.integral_type,
                        subdomain_id        |-> intg_data.subdomain_id,
                        domain_number       |-> intg_data.domain_number,
                        coefficient_numbers |-> intg_data.coefficient_numbers,
                        subspace_numbers    |-> intg_data.subspace_numbers,
                        subspace_parts      |->
                            [k \in DOMAIN intg_data.subspace_numbers |-> PyNone],
                        fem_config          |-> fem.value,
                        quadrature_indices  |-> <<>>,
                        arguments           |-> args,
                        mode_irs            |-> <<>> ] ]

\* gem expressions, as far as indices matter: Indexed(table, multiindex),
\* Product of factors, IndexSum(summand, index).
Indexed(name, multiindex) ==
    [op |-> "Indexed", name |-> name, multiindex |-> multiindex, children |-> <<>>]

Product(factors) ==
    [op |-> "Product", name |-> "", multiindex |-> <<>>, children |-> factors]

IndexSum(summand, index) ==
    [op |-> "IndexSum", name |-> "", multiindex |-> <<index>>, children |-> <<summand>>]

\* node.free_indices
RECURSIVE FreeIndices(_)
FreeIndices(node) ==
    IF node.op = "Indexed" THEN Elems(node.multiindex)
    ELSE IF node.op = "IndexSum"
         THEN FreeIndices(node.children[1]) \ Elems(node.multiindex)
         ELSE UNION {FreeIndices(node.children[k]) : k \in DOMAIN node.children}

\* gem.optimise.filtered_replace_indices, the mapper of line 584: the rules
\* whose index is not free in the node are dropped, an Indexed node takes
\* dict(subst) through its multiindex, any other node maps its children and
\* is reused when they are untouched.
RECURSIVE filtered_replace_indices(_, _)
filtered_replace_indices(node, subst) ==
    LET free     == FreeIndices(node)
        filtered == SelectSeq(subst, LAMBDA rule : rule[1] \in free)
        Sub(i)   == IF \E k \in DOMAIN filtered : filtered[k][1] = i
                       THEN filtered[CHOOSE k \in DOMAIN filtered :
                                        /\ filtered[k][1] = i
                                        /\ \A j \in DOMAIN filtered :
                                              j > k => filtered[j][1] # i][2]
                       ELSE i
    IN IF node.op = "Indexed"
          THEN [node EXCEPT !.multiindex = [j \in DOMAIN @ |-> Sub(@[j])]]
          ELSE [node EXCEPT !.children =
                    [j \in DOMAIN @ |-> filtered_replace_indices(@[j], filtered)]]

\* zip(chain(*dummy), chain(*true)) of line 583: pairs as far as both go.
Zip(from, to) ==
    [k \in 1..(IF Len(from) <= Len(to) THEN Len(from) ELSE Len(to)) |-> <<from[k], to[k]>>]

\* replace_argument_multiindices_dummy returning its expressions as they are.
ReplaceNothing(exprs, config) == exprs

\* Lines 567-585.
replace_argument_multiindices_dummy(exprs, config) ==
    LET multiindices       == config.fem_config.argument_multiindices
        multiindices_dummy == config.fem_config.argument_multiindices_dummy
        substitution       == Zip(Flatten(multiindices_dummy), Flatten(multiindices))
    IN IF multiindices_dummy = multiindices THEN exprs
       ELSE [e \in DOMAIN exprs |-> filtered_replace_indices(exprs[e], substitution)]

-----------------------------------------------------------------------------
(* The backend, as far as compile_integral drives it.  The builder keeps   *)
(* what was stashed; construct_kernel yields None for the classifications  *)
(* the backend has no executable work for.                                 *)

None == [none |-> TRUE, name |-> <<>>, integrals |-> <<>>]

Kernel(name, integrals) == [none |-> FALSE, name |-> name, integrals |-> integrals]

\* interface(integral_type, scalar_type, diagonal=..., integral_data=...)
KernelBuilder(itype, scalar_type) ==
    [integral_type |-> itype, scalar_type |-> scalar_type, integrals |-> <<>>]

\* builder.coordinate(domain)
Coordinate(domain) == [kind |-> "Coordinate", space |-> "X", count |-> 0]

\* An argument, as the function it is in the list functions.
Argument(args, k) == [kind |-> "Argument", space |-> "V", count |-> k - 1]

\* builder.set_arguments(kernel_config), as the exception it raises: a
\* diagonal of test and trial indices of unequal extents is refused.
set_arguments(config, diag) ==
    LET args == config.arguments IN
    IF diag /\ (Len(args) # 2 \/ Extent(args[1]) # Extent(args[2]))
       THEN "UnsupportedArgumentShapeError"
       ELSE "none"

\* The quadrature index of a rule: one point more than its degree.
QuadratureIndex(rule) == [argument |-> "q", extent |-> rule.int + 1, dummy |-> FALSE]

\* builder.compile_ufl(integrand, params, kernel_config): the sum over the
\* points of the rule of params of the basis functions, tabulated over the
\* dummy argument indices, times the terminals of the integrand, which have
\* no argument index.
compile_ufl(integrand, ps, config) ==
    LET q        == QuadratureIndex(ps["quadrature_rule"])
        basis    == Indexed("basis", Flatten(config.fem_config.argument_multiindices_dummy)
                                        \o <<q>>)
        factors  == [k \in DOMAIN integrand |-> Indexed(integrand[k].kind, <<q>>)]
    IN <<IndexSum(Product(<<basis>> \o factors), q)>>

\* builder.construct_integrals(expressions, params, kernel_config)
construct_integrals(exprs, ps, config) == exprs

\* builder.stash_integrals(reps, params, kernel_config), as the builder it leaves
stash_integrals(bld, reps) == [bld EXCEPT !.integrals = @ \o reps]

\* builder.construct_kernel(kernel_config)
construct_kernel(bld, config) ==
    IF bld.integral_type \in interface THEN None
    ELSE Kernel(config.name, bld.integrals)

-----------------------------------------------------------------------------
(* compile_form and compile_integral, step by step *)

\* IntegralParams without the copy of line 247: params is the dict
\* parameters itself, which takes the metadata and the rule.
IntegralParamsShared(global, metadata, cell, itype, fns) ==
    LET r == set_quad_rule(Update(global, metadata), cell, itype, fns)
    IN [parameters |-> r.params, params |-> r.params, raised |-> r.raised]

\* Lines 247-249: params is a copy of parameters, updated by the metadata
\* of the integral and then by set_quad_rule; parameters is the dict as
\* the three statements leave it.
IntegralParams(global, metadata, cell, itype, fns) ==
    LET r == set_quad_rule(Update(global, metadata), cell, itype, fns)
    IN [parameters |-> global, params |-> r.params, raised |-> r.raised]

\* NextIntegral leaving the loop after its first integral.
NextIntegralOnlyFirst(i, n) ==
    IF i < n /\ i < 1 THEN "set_quad_rule" ELSE "construct_kernel"

\* The step after the integrals 1..i of n: line 246 takes the next
\* integral, line 254 follows the last.
NextIntegral(i, n) == IF i < n THEN "set_quad_rule" ELSE "construct_kernel"

\* KernelsWith appending a None result too.
KernelsWithNone(ks, k) == Append(ks, k)

\* Lines 202-203.
KernelsWith(ks, k) == IF ~k.none THEN Append(ks, k) ELSE ks

\* The record of one step of compile_integral; integral is 0 outside the loop.
Call(fn, i) == [fn |-> fn, integral |-> i]

\* The integral data compile_integral is compiling.
CurrentIntegralData == tsfc_form_data.integral_data[group]

\* Forms on one domain: integrals of up to three classifications, each with
\* the estimated degree compute_form_data attaches and, possibly, an
\* explicit degree or a rule that is no quadrature rule.
FormKeys == {<<"d0", "cell", 0>>, <<"d0", "exterior_facet", -1>>,
             <<"d0", "interior_facet_horiz", 1>>}

EstimatedDegree == [k \in {"estimated_polynomial_degree"} |-> PyInt(2)]

Metadata ==
    { EstimatedDegree,
      SetItem(EstimatedDegree, "quadrature_degree", PyInt(4)),
      SetItem(EstimatedDegree, "quadrature_rule", PyStr("bogus")) }

FormCells == {Simplex(2), TensorProductCell(Simplex(1), Simplex(1))}

FormsOf(n) ==
    {[nrec |-> 1, orig |-> {0}, items |-> its, tspace |-> <<"V">>,
      arguments |-> <<ArgumentsA>>, cell |-> c] :
        its \in ItemSeqs(n, 1, FormKeys, {0}, {-1}, Metadata), c \in FormCells}

Forms == UNION {FormsOf(n) : n \in 1..MaxFormItems}

\* parameters=None leaves the defaults, as the empty dict does.
UserParameters ==
    {[k \in {} |-> PyNone], [k \in {"quadrature_degree"} |-> PyInt(3)]}

\* The default prefix and one with a hyphen, as the pieces of the string.
Prefixes == {<<"form">>, <<"my", "-", "form">>}

Backends == SUBSET {"cell", "exterior_facet"}

CompileInit ==
    /\ LowerIdle
    /\ FormIdle
    /\ QuadIdle
    /\ form \in Forms
    /\ prefix \in Prefixes
    /\ parameters \in UserParameters
    /\ interface \in Backends
    /\ diagonal = FALSE
    /\ compile_pc = "compute_form_data"
    /\ compile_raised = "none"
    /\ tsfc_form_data = <<>>
    /\ group = 0
    /\ calls = <<>>
    /\ builder = <<>>
    /\ kernel_config = <<>>
    /\ functions = <<>>
    /\ integral = 0
    /\ params = <<>>
    /\ expressions = <<>>
    /\ kernel = None
    /\ kernels = <<>>

\* Lines 186-198: the parameters, compute_form_data and TSFCFormData of its
\* one record.
ComputeFormData ==
    /\ compile_pc = "compute_form_data"
    /\ parameters' = preprocess_parameters(parameters)
    /\ LET t == TSFCFormData(FormDataTuple(form), OriginalForm(form.orig)) IN
       IF t.raised # "none"
          THEN /\ compile_raised' = t.raised
               /\ compile_pc' = "raised"
               /\ tsfc_form_data' = tsfc_form_data
          ELSE /\ compile_raised' = "none"
               /\ tsfc_form_data' = t
               /\ compile_pc' = IF Len(t.integral_data) = 0 THEN "returned"
                                ELSE "create_kernel_config"
    /\ UNCHANGED <<compile_inputs, group, compile_integral_vars, kernel, kernels,
                   lower_vars, form_vars, quad_vars>>

\* Lines 199-201 and 232-240: the next integral data, its builder, the
\* kernel name and the kernel configuration.
CreateKernelConfig ==
    /\ compile_pc = "create_kernel_config"
    /\ group' = group + 1
    /\ LET intg_data == tsfc_form_data.integral_data[group + 1]
           bld       == KernelBuilder(intg_data.integral_type, parameters["scalar_type_c"])
           name      == KernelName(prefix, intg_data.integral_type, intg_data.subdomain_id)
           config    == create_kernel_config(name, tsfc_form_data, intg_data, parameters,
                                             bld, diagonal)
       IN /\ builder' = bld
          /\ calls' = <<Call("create_kernel_config", 0)>>
          /\ IF config.raised # "none"
                THEN /\ compile_raised' = config.raised
                     /\ compile_pc' = "raised"
                     /\ kernel_config' = kernel_config
                ELSE /\ compile_raised' = "none"
                     /\ compile_pc' = "set_arguments"
                     /\ kernel_config' = config.value
    /\ UNCHANGED <<compile_inputs, parameters, tsfc_form_data, functions, integral, params,
                   expressions, kernel, kernels, lower_vars, form_vars, quad_vars>>

\* Lines 243-244.
SetArguments ==
    /\ compile_pc = "set_arguments"
    /\ calls' = Append(calls, Call("set_arguments", 0))
    /\ functions' =
            [k \in DOMAIN kernel_config.arguments |-> Argument(kernel_config.arguments, k)]
              \o <<Coordinate(CurrentIntegralData.domain)>>
              \o CurrentIntegralData.integral_coefficients
    /\ integral' = 0
    /\ compile_raised' = set_arguments(kernel_config, diagonal)
    /\ compile_pc' = IF compile_raised' # "none" THEN "raised"
                     ELSE NextIntegral(0, Len(CurrentIntegralData.integrals))
    /\ UNCHANGED <<compile_inputs, parameters, tsfc_form_data, group,
                   builder, kernel_config, params, expressions, kernel, kernels,
                   lower_vars, form_vars, quad_vars>>

\* Lines 246-249: the next integral, its parameters and its quadrature rule.
SetQuadRule ==
    /\ compile_pc = "set_quad_rule"
    /\ integral' = integral + 1
    /\ calls' = Append(calls, Call("set_quad_rule", integral + 1))
    /\ LET r == IntegralParams(parameters,
                               CurrentIntegralData.integrals[integral + 1].metadata,
                               ufl_cell(CurrentIntegralData.domain),
                               CurrentIntegralData.integral_type, functions)
       IN /\ parameters' = r.parameters
          /\ params' = r.params
          /\ compile_raised' = r.raised
          /\ compile_pc' = IF r.raised # "none" THEN "raised" ELSE "compile_ufl"
    /\ UNCHANGED <<compile_inputs, tsfc_form_data, group, builder,
                   kernel_config, functions, expressions, kernel, kernels,
                   lower_vars, form_vars, quad_vars>>

\* Line 250.
CompileUfl ==
    /\ compile_pc = "compile_ufl"
    /\ calls' = Append(calls, Call("compile_ufl", integral))
    /\ expressions' = compile_ufl(CurrentIntegralData.integrals[integral].integrand,
                                  params, kernel_config)
    /\ compile_pc' = "replace_argument_multiindices_dummy"
    /\ UNCHANGED <<compile_inputs, parameters, compile_raised, tsfc_form_data, group,
                   builder, kernel_config, functions, integral, params, kernel, kernels,
                   lower_vars, form_vars, quad_vars>>

\* Line 251.
ReplaceArgumentMultiindicesDummy ==
    /\ compile_pc = "replace_argument_multiindices_dummy"
    /\ calls' = Append(calls, Call("replace_argument_multiindices_dummy", integral))
    /\ expressions' = replace_argument_multiindices_dummy(expressions, kernel_config)
    /\ compile_pc' = "construct_integrals"
    /\ UNCHANGED <<compile_inputs, parameters, compile_raised, tsfc_form_data, group,
                   builder, kernel_config, functions, integral, params, kernel, kernels,
                   lower_vars, form_vars, quad_vars>>

\* Line 252.
ConstructIntegrals ==
    /\ compile_pc = "construct_integrals"
    /\ calls' = Append(calls, Call("construct_integrals", integral))
    /\ expressions' = construct_integrals(expressions, params, kernel_config)
    /\ compile_pc' = "stash_integrals"
    /\ UNCHANGED <<compile_inputs, parameters, compile_raised, tsfc_form_data, group,
                   builder, kernel_config, functions, integral, params, kernel, kernels,
                   lower_vars, form_vars, quad_vars>>

\* Line 253, and the loop going on or ending.
StashIntegrals ==
    /\ compile_pc = "stash_integrals"
    /\ calls' = Append(calls, Call("stash_integrals", integral))
    /\ builder' = stash_integrals(builder, expressions)
    /\ compile_pc' = NextIntegral(integral, Len(CurrentIntegralData.integrals))
    /\ UNCHANGED <<compile_inputs, parameters, compile_raised, tsfc_form_data, group,
                   kernel_config, functions, integral, params, expressions, kernel,
                   kernels, lower_vars, form_vars, quad_vars>>

\* Line 254 and the assignment of line 201.
ConstructKernel ==
    /\ compile_pc = "construct_kernel"
    /\ calls' = Append(calls, Call("construct_kernel", 0))
    /\ kernel' = construct_kernel(builder, kernel_config)
    /\ compile_pc' = "append"
    /\ UNCHANGED <<compile_inputs, parameters, compile_raised, tsfc_form_data, group,
                   builder, kernel_config, functions, integral, params, expressions,
                   kernels, lower_vars, form_vars, quad_vars>>

\* Lines 202-207: the kernel joins the list unless it is None; the loop
\* goes on or compile_form returns the list.
AppendKernel ==
    /\ compile_pc = "append"
    /\ kernels' = KernelsWith(kernels, kernel)
    /\ compile_pc' = IF group < Len(tsfc_form_data.integral_data)
                        THEN "create_kernel_config" ELSE "returned"
    /\ UNCHANGED <<compile_inputs, parameters, compile_raised, tsfc_form_data, group,
                   compile_integral_vars, kernel, lower_vars, form_vars, quad_vars>>

CompileNext ==
    \/ ComputeFormData
    \/ CreateKernelConfig
    \/ SetArguments
    \/ SetQuadRule
    \/ CompileUfl
    \/ ReplaceArgumentMultiindicesDummy
    \/ ConstructIntegrals
    \/ StashIntegrals
    \/ ConstructKernel
    \/ AppendKernel

SpecCompile == CompileInit /\ [][CompileNext]_vars

-----------------------------------------------------------------------------
(* compile_form over forms of rank 0, 1 and 2, with and without diagonal:   *)
(* the same steps, from inputs that vary the arguments.                    *)

\* No argument, a test function, test and trial function in one space, and
\* a trial function in a larger space.
ConfigArguments == {<<>>, <<"v">>, <<"v", "u">>, <<"v", "w">>}

ConfigFormsOf(n) ==
    {[nrec |-> 1, orig |-> {0}, items |-> its, tspace |-> <<"V">>,
      arguments |-> <<args>>, cell |-> c] :
        its \in ItemSeqs(n, 1, FormKeys, {-1, 0}, {-1}, {EstimatedDegree}),
        args \in ConfigArguments, c \in FormCells}

ConfigForms == UNION {ConfigFormsOf(n) : n \in 1..MaxConfigItems}

ConfigInit ==
    /\ LowerIdle
    /\ FormIdle
    /\ QuadIdle
    /\ form \in ConfigForms
    /\ prefix = <<"form">>
    /\ parameters = [k \in {} |-> PyNone]
    /\ interface = {}
    /\ diagonal \in BOOLEAN
    /\ compile_pc = "compute_form_data"
    /\ compile_raised = "none"
    /\ tsfc_form_data = <<>>
    /\ group = 0
    /\ calls = <<>>
    /\ builder = <<>>
    /\ kernel_config = <<>>
    /\ functions = <<>>
    /\ integral = 0
    /\ params = <<>>
    /\ expressions = <<>>
    /\ kernel = None
    /\ kernels = <<>>

SpecConfig == ConfigInit /\ [][CompileNext]_vars

-----------------------------------------------------------------------------
(* set_quad_rule, step by step, over parameter dicts that hold or lack a   *)
(* degree, an estimate and a rule.                                         *)

\* The dict with the entries of d that are not PyNone.
Present(d) == [k \in {j \in DOMAIN d : d[j] # PyNone} |-> d[k]]

QuadDegrees == {PyNone, PyInt(0), PyInt(4)}

QuadEstimates == {PyNone, PyInt(2), PyInt(11)}

QuadRules == {PyNone, PyStr("default"), PyStr("bogus"), QuadratureRule(<<2>>, 1)}

QuadParams ==
    {Present([k \in {"quadrature_degree", "estimated_polynomial_degree", "quadrature_rule"} |->
                 IF k = "quadrature_degree" THEN d
                 ELSE IF k = "estimated_polynomial_degree" THEN e ELSE r]) :
        d \in QuadDegrees, e \in QuadEstimates, r \in QuadRules}

QuadCells == {Simplex(2), TensorProductCell(Simplex(1), Simplex(1))}

QuadTypes == {"cell", "exterior_facet", "vertex", "custom"}

\* Two arguments and the coordinates, with or without a coefficient of
\* degree two.
QuadFunctions ==
    LET low == <<Argument(ArgumentsA, 1), Argument(ArgumentsA, 2), Coordinate("d0")>>
    IN {low, low \o <<Coefficient("W", 0)>>}

QuadInit ==
    /\ LowerIdle
    /\ FormIdle
    /\ CompileIdle
    /\ quad_args \in [params : QuadParams, cell : QuadCells, integral_type : QuadTypes,
                       functions : QuadFunctions]
    /\ quad_params = quad_args.params
    /\ quad_pc = "degree"
    /\ quadrature_degree = PyNone
    /\ quad_rule = PyNone
    /\ quad_raised = "none"
    /\ quad_warned = FALSE
    /\ quad_made = FALSE

\* Lines 330-340.
QuadDegree ==
    /\ quad_pc = "degree"
    /\ LET d == QuadratureDegree(quad_params, quad_args.functions) IN
       /\ quadrature_degree' = d.degree
       /\ quad_warned' = d.warned
       /\ quad_raised' = d.raised
       /\ quad_pc' = IF d.raised # "none" THEN "raised" ELSE "rule"
    /\ UNCHANGED <<quad_args, quad_params, quad_rule, quad_made,
                   lower_vars, form_vars, compile_vars>>

\* Lines 341-350.
QuadRule ==
    /\ quad_pc = "rule"
    /\ LET r == ResolveQuadRule(quad_params, quad_args.cell, quad_args.integral_type,
                                quadrature_degree)
       IN /\ quad_params' = r.params
          /\ quad_made' = r.made
          /\ quad_raised' = r.raised
          /\ quad_rule' = IF r.raised # "none" THEN quad_rule
                          ELSE r.params["quadrature_rule"]
          /\ quad_pc' = IF r.raised # "none" THEN "raised" ELSE "validate"
    /\ UNCHANGED <<quad_args, quadrature_degree, quad_warned,
                   lower_vars, form_vars, compile_vars>>

\* Lines 352-354.
QuadValidate ==
    /\ quad_pc = "validate"
    /\ IF IsQuadratureRule(quad_rule)
          THEN quad_pc' = "returned" /\ quad_raised' = "none"
          ELSE quad_pc' = "raised" /\ quad_raised' = "ValueError"
    /\ UNCHANGED <<quad_args, quad_params, quadrature_degree, quad_rule, quad_warned,
                   quad_made, lower_vars, form_vars, compile_vars>>

QuadNext == QuadDegree \/ QuadRule \/ QuadValidate

SpecQuad == QuadInit /\ [][QuadNext]_vars

-----------------------------------------------------------------------------
(* Properties of the aggregation (under SpecForm) *)

Orderings(n) == {p \in [1..n -> 1..n] : \A i, j \in 1..n : p[i] = p[j] => i = j}

Permuted(fdt, p) == [i \in DOMAIN fdt |-> fdt[p[i]]]

\* The (domain, integral_type, subdomain_id) triple of an integral data or unit.
Triple(d) == <<d.domain, d.integral_type, d.subdomain_id>>

\* C1, as stated: building TSFCFormData from any permutation of the records
\* yields the same reduced coefficients, the same renumbering map, the same
\* original coefficient positions, the same subspace data and the same
\* ordered list of integral units (a unit being named by its triple).
C1_PermutationYieldsIdenticalUnit ==
    form_pc = "done" =>
        \A p \in Orderings(Len(form_data_tuple)) :
            LET t == TSFCFormData(Permuted(form_data_tuple, p), original_form) IN
            /\ t.raised = "none"
            /\ t.reduced_coefficients = reduced_coefficients
            /\ t.function_replace_map = function_replace_map
            /\ t.original_coefficient_positions = original_coefficient_positions
            /\ t.reduced_subspaces = reduced_subspaces
            /\ t.original_subspace_positions = original_subspace_positions
            /\ t.subspace_replace_map = subspace_replace_map
            /\ [k \in DOMAIN t.integral_data |-> Triple(t.integral_data[k])]
                    = [k \in DOMAIN integral_data |-> Triple(integral_data[k])]

\* C1, amended: any permutation of the records yields the same reduced
\* coefficient list, the same original coefficient positions, a renumbering
\* map with the same keys and the same canonical counts, and integral units
\* for the same set of triples.
C1_PermutationKeepsCoefficientOrder ==
    form_pc = "done" =>
        \A p \in Orderings(Len(form_data_tuple)) :
            LET t == TSFCFormData(Permuted(form_data_tuple, p), original_form) IN
            /\ t.raised = "none"
            /\ t.reduced_coefficients = reduced_coefficients
            /\ \A i \in 1..(Len(reduced_coefficients) - 1) :
                    reduced_coefficients[i].count < reduced_coefficients[i + 1].count
            /\ t.original_coefficient_positions = original_coefficient_positions
            /\ DOMAIN t.function_replace_map = DOMAIN function_replace_map
            /\ \A f \in DOMAIN function_replace_map :
                    t.function_replace_map[f].count = function_replace_map[f].count
            /\ {Triple(t.integral_data[k]) : k \in DOMAIN t.integral_data}
                    = {Triple(integral_data[k]) : k \in DOMAIN integral_data}

\* Two records whose reduced coefficients differ, the second holding a
\* coefficient of smaller count than the first, have been aggregated.
C1_Witness ==
    /\ form_pc = "done"
    /\ Len(form_data_tuple) = 2
    /\ Len(reduced_coefficients) = 2
    /\ form_data_tuple[1].reduced_coefficients = <<reduced_coefficients[2]>>
    /\ form_data_tuple[2].reduced_coefficients = <<reduced_coefficients[1]>>

\* C2: when the records' argument tuples are not all identical the
\* constructor raises ValueError at the argument check, and nothing of the
\* aggregated unit (coefficient reduction, renumbering, subspaces, grouping,
\* integral units) has been computed; when they agree that check passes.
C2_InconsistentArgumentsFail ==
    /\ (form_pc # "arguments"
            /\ \E i, j \in DOMAIN form_data_tuple :
                    form_data_tuple[i].arguments # form_data_tuple[j].arguments)
        => /\ form_pc = "raised"
           /\ form_raised = "ValueError"
           /\ arguments = <<>>
           /\ reduced_coefficients = <<>>
           /\ function_replace_map = <<>>
           /\ original_coefficient_positions = <<>>
           /\ reduced_subspaces = <<>>
           /\ subspace_replace_map = <<>>
           /\ intg_data_dict = <<>>
           /\ form_data_dict = <<>>
           /\ integral_data = <<>>
    /\ (form_pc # "arguments"
            /\ \A i, j \in DOMAIN form_data_tuple :
                    form_data_tuple[i].arguments = form_data_tuple[j].arguments)
        => /\ form_raised # "ValueError"
           /\ arguments = form_data_tuple[1].arguments

\* Two records with different argument tuples: the constructor has raised.
C2_Witness ==
    /\ form_pc = "raised"
    /\ Len(form_data_tuple) = 2
    /\ form_data_tuple[1].arguments # form_data_tuple[2].arguments

\* The integral data of the records, in the order of the scan.
Scanned ==
    LET so == ScanOrder(form_data_tuple)
    IN [k \in DOMAIN so |-> form_data_tuple[so[k][1]].integral_data[so[k][2]]]

Literals(integrals) ==
    {t \in UNION {Elems(integrals[k].integrand) : k \in DOMAIN integrals} :
        t.kind = "Literal"}

\* C6: no integral of an integral data merged into a unit is absent from the
\* unit: the unit of a triple holds the integrals of every integral data
\* with that triple, as it would had they been given already grouped.
C6_NoIntegralAbsent ==
    form_pc = "done" =>
        \A k \in DOMAIN integral_data :
            \A j \in DOMAIN intg_data_dict[k].list :
                Literals(intg_data_dict[k].list[j].integrals)
                    \subseteq Literals(integral_data[k].integrals)

\* The coefficients and subspaces among the terminals of a unit's integrals.
TerminalsOf(unit, kind) ==
    {t \in UNION {Elems(unit.integrals[k].integrand) : k \in DOMAIN unit.integrals} :
        t.kind = kind}

\* C7: in every unit, the k-th coefficient number is the position in
\* original_form.coefficients() of the k-th coefficient the unit references,
\* and the k-th canonical coefficient is the image of that coefficient; every
\* coefficient of the unit's integrands is one of these canonical
\* coefficients.  The same for subspace numbers against the original
\* subspace list.
C7_NumbersArePositionsInOriginal ==
    form_pc = "done" =>
        \A n \in DOMAIN integral_data :
            LET u  == integral_data[n]
                fd == form_data_dict[n].list[1]
            IN
            /\ Len(u.coefficient_numbers) = Len(u.integral_coefficients)
            /\ Len(u.coefficients) = Len(u.integral_coefficients)
            /\ \A k \in DOMAIN u.integral_coefficients :
                /\ u.coefficient_numbers[k] + 1 \in DOMAIN original_form.coefficients
                /\ original_form.coefficients[u.coefficient_numbers[k] + 1]
                        = u.integral_coefficients[k]
                /\ u.coefficients[k] = function_replace_map[u.integral_coefficients[k]]
            /\ TerminalsOf(u, "Coefficient") = Elems(u.coefficients)
            /\ Len(u.subspace_numbers) = Len(u.original_subspaces)
            /\ Len(u.subspaces) = Len(u.original_subspaces)
            /\ \A k \in DOMAIN u.original_subspaces :
                /\ original_form.subspaces[u.subspace_numbers[k] + 1] = u.original_subspaces[k]
                /\ u.subspaces[k] = fd.subspace_replace_map[u.original_subspaces[k]]
            /\ TerminalsOf(u, "Subspace") = Elems(u.subspaces)

\* A unit referencing two coefficients, not in count order, one of them at a
\* position of the original form other than its index among the reduced
\* coefficients.
C7_Witness ==
    /\ form_pc = "done"
    /\ \E n \in DOMAIN integral_data :
        LET u == integral_data[n] IN
        /\ Len(u.coefficient_numbers) = 2
        /\ u.coefficient_numbers[1] > u.coefficient_numbers[2]
        /\ u.coefficient_numbers[1]
                # IndexOf(reduced_coefficients, u.integral_coefficients[1])

\* The rewriting of lines 150-151 for unit n, applied to an integrand.
Rewrite(n, integrand) ==
    Replace(Replace(integrand, function_replace_map),
            form_data_dict[n].list[1].subspace_replace_map)

\* ufl.replace with map m changes nothing it has produced: no value of m
\* is a key of m with another value.
Stable(m) == \A f \in DOMAIN m : m[f] \in DOMAIN m => m[m[f]] = m[f]

\* C8, as stated: applying the two substitutions to an already rewritten
\* integrand leaves it unchanged, and the rewritten integrand contains no
\* coefficient outside the canonical list.
C8_RewritingIdempotent ==
    form_pc = "done" =>
        \A n \in DOMAIN integral_data :
            \A k \in DOMAIN integral_data[n].integrals :
                LET e == integral_data[n].integrals[k].integrand IN
                /\ Rewrite(n, e) = e
                /\ \A i \in DOMAIN e :
                        e[i].kind = "Coefficient" =>
                            \E f \in DOMAIN function_replace_map :
                                function_replace_map[f] = e[i]

\* C8, amended: the rewritten integrand contains no coefficient outside the
\* canonical list and no subspace outside the owning record's canonical
\* subspaces, and applying the two substitutions again leaves it unchanged
\* whenever no canonical coefficient or subspace is itself a key of its map
\* with another image.
C8_RewritingCanonical ==
    form_pc = "done" =>
        \A n \in DOMAIN integral_data :
            \A k \in DOMAIN integral_data[n].integrals :
                LET e  == integral_data[n].integrals[k].integrand
                    sm == form_data_dict[n].list[1].subspace_replace_map
                IN
                /\ \A i \in DOMAIN e :
                        /\ e[i].kind = "Coefficient" =>
                                \E f \in DOMAIN function_replace_map :
                                    function_replace_map[f] = e[i]
                        /\ e[i].kind = "Subspace" => \E c \in DOMAIN sm : sm[c] = e[i]
                /\ (Stable(function_replace_map) /\ Stable(sm)) => Rewrite(n, e) = e

\* A unit whose integrand holds a canonical coefficient that is no
\* coefficient of the original form, under a stable renumbering of two
\* coefficients.
C8_Witness ==
    /\ form_pc = "done"
    /\ Stable(function_replace_map)
    /\ Len(reduced_coefficients) = 2
    /\ \E n \in DOMAIN integral_data :
        \E t \in TerminalsOf(integral_data[n], "Coefficient") :
            t \notin Elems(original_form.coefficients)

-----------------------------------------------------------------------------
(* Properties of lower_integral_type (under SpecLower) *)

C10_TotalOverDocumentedTypes ==
    lower_pc \in {"returned", "raised"} =>
        /\ integral_type \in DocumentedTypes =>
            \/ lower_pc = "returned"
            \/ /\ lower_raised = "ValueError"
               /\ \/ fiat_cell.tp /\ integral_type \in {"exterior_facet", "interior_facet"}
                  \/ ~fiat_cell.tp /\ integral_type \in vert_facet_types \cup horiz_facet_types
        /\ integral_type \notin DocumentedTypes =>
            /\ lower_pc = "raised"
            /\ lower_raised = "NotImplementedError"
            /\ integration_dim = <<>>
            /\ entity_ids = <<>>

\* The classification does not fit the kind of cell.
Mismatch ==
    \/ fiat_cell.tp /\ integral_type \in {"exterior_facet", "interior_facet"}
    \/ ~fiat_cell.tp /\ integral_type \in vert_facet_types \cup horiz_facet_types

\* C11: a facet classification on a product cell, and an extruded
\* classification on a cell that is no product cell, end in ValueError (the
\* classification mismatch) with no dimension and no entity ids, and the
\* statement computing the entity ids is never reached.
C11_MismatchFailsBeforeEntityIds ==
    Mismatch =>
        /\ lower_pc # "ids"
        /\ lower_pc # "returned"
        /\ entity_ids = <<>>
        /\ lower_pc = "raised" =>
                /\ lower_raised = "ValueError"
                /\ integration_dim = <<>>

\* "exterior_facet" on a product cell has raised.
C11_Witness ==
    /\ lower_pc = "raised"
    /\ fiat_cell.tp
    /\ integral_type = "exterior_facet"
    /\ lower_raised = "ValueError"

-----------------------------------------------------------------------------
(* Properties of compile_form and compile_integral (under SpecCompile) *)

IsPrefix(s, t) == Len(s) <= Len(t) /\ \A i \in DOMAIN s : s[i] = t[i]

\* The steps of a compile_integral over n integrals that returns.
RECURSIVE IntegralSteps(_)
IntegralSteps(n) ==
    IF n = 0 THEN <<>>
    ELSE IntegralSteps(n - 1)
           \o <<Call("set_quad_rule", n), Call("compile_ufl", n),
                Call("replace_argument_multiindices_dummy", n),
                Call("construct_integrals", n), Call("stash_integrals", n)>>

FixedOrder(n) ==
    <<Call("create_kernel_config", 0), Call("set_arguments", 0)>>
        \o IntegralSteps(n) \o <<Call("construct_kernel", 0)>>

\* C3: in every compile_integral the steps taken so far are an initial part
\* of the fixed order (kernel configuration, set_arguments, then per integral
\* quadrature resolution, compile_ufl, dummy-index reconciliation,
\* construct_integrals, stash_integrals, then construct_kernel), and when it
\* has returned every step of that order was taken exactly once and the
\* value returned is the result of construct_kernel.
C3_BackendDrivenInFixedOrder ==
    /\ group >= 1 =>
           IsPrefix(calls, FixedOrder(Len(CurrentIntegralData.integrals)))
    /\ compile_pc = "append" =>
           /\ calls = FixedOrder(Len(CurrentIntegralData.integrals))
           /\ kernel = construct_kernel(builder, kernel_config)
           /\ Len(builder.integrals) = Len(CurrentIntegralData.integrals)

\* A compile_integral over two integrals has returned.
C3_Witness ==
    /\ compile_pc = "append"
    /\ Len(CurrentIntegralData.integrals) >= 2
    /\ Len(calls) = Len(FixedOrder(2))

\* The integral data whose classification the backend has work for.
WithKernel == SelectSeq(tsfc_form_data.integral_data,
                        LAMBDA u : u.integral_type \notin interface)

\* C4: the list compile_form returns holds one kernel for each integral data
\* whose construct_kernel result is not None, in the order of the integral
\* data, and none for the others; a None result raises nothing.
C4_OneKernelPerNonNullGroup ==
    /\ compile_pc = "returned" =>
           /\ compile_raised = "none"
           /\ Len(kernels) = Len(WithKernel)
           /\ \A k \in DOMAIN kernels :
                  /\ ~kernels[k].none
                  /\ kernels[k].name = KernelName(prefix, WithKernel[k].integral_type,
                                                  WithKernel[k].subdomain_id)
    /\ compile_pc = "raised" /\ calls # <<>> =>
           calls[Len(calls)].fn # "construct_kernel"

\* compile_form has returned one kernel for two integral data, the first of
\* which had a None result.
C4_Witness ==
    /\ compile_pc = "returned"
    /\ Len(tsfc_form_data.integral_data) = 2
    /\ tsfc_form_data.integral_data[1].integral_type \in interface
    /\ Len(kernels) = 1

\* compile_integral holds the kernel configuration of the current integral data.
Configured ==
    compile_pc \in {"set_arguments", "set_quad_rule", "compile_ufl",
                    "replace_argument_multiindices_dummy", "construct_integrals",
                    "stash_integrals", "construct_kernel", "append"}

\* C14: the name in the kernel configuration of every integral data is the
\* prefix, "_", the classification, "_integral_" and the subdomain id, with
\* every "-" replaced by "_": it holds no "-", and for the subdomain id -1
\* it ends in "_integral_", "_", "1".
C14_KernelNameHasNoHyphen ==
    Configured =>
        LET name == kernel_config.name
            n    == Len(name)
            head == prefix \o <<"_", CurrentIntegralData.integral_type, "_integral_">>
            id   == CurrentIntegralData.subdomain_id
        IN /\ \A k \in DOMAIN name : name[k] # "-"
           /\ n > Len(head)
           /\ \A k \in DOMAIN head : name[k] = IF head[k] = "-" THEN "_" ELSE head[k]
           /\ id >= 0 => SubSeq(name, Len(head) + 1, n) = Digits(id)
           /\ id < 0 => SubSeq(name, Len(head) + 1, n) = <<"_">> \o Digits(-id)
           /\ id = -1 => SubSeq(name, n - 2, n) = <<"_integral_", "_", "1">>

\* The kernel of an integral data with subdomain id -1 was named under a
\* prefix that holds a hyphen.
C14_Witness ==
    /\ compile_pc = "append"
    /\ CurrentIntegralData.subdomain_id = -1
    /\ \E k \in DOMAIN prefix : prefix[k] = "-"
    /\ ~kernel.none
    /\ kernel.name = <<"my", "_", "form", "_", "exterior_facet", "_integral_", "_", "1">>

-----------------------------------------------------------------------------
(* Properties of set_quad_rule (under SpecQuad) *)

\* The call was given an explicit quadrature_degree.
Override == "quadrature_degree" \in DOMAIN quad_args.params

\* The call was given no explicit rule: none at all, or the "default" sentinel.
NoExplicitRule == Get(quad_args.params, "quadrature_rule") \in {PyNone, PyStr("default")}

\* The call has ended.
QuadEnded == quad_pc \in {"returned", "raised"}

\* What lower_integral_type answers for the call's cell and classification.
QuadLowered == lower_integral_type(quad_args.cell, quad_args.integral_type)

\* C12: with an explicit quadrature_degree and no explicit rule the degree
\* used is that override, no warning is logged, the rule stored on return is
\* the one built with that degree on the integration cell, and the outcome
\* is what it would be with the estimate removed from the parameters (only
\* a failed lowering makes the call fail); without an override the degree
\* is the estimate, and the call fails with KeyError when there is none.
C12_OverrideUsedVerbatim ==
    /\ (Override /\ NoExplicitRule) =>
        /\ ~quad_warned
        /\ quad_pc # "degree" =>
                quadrature_degree = quad_args.params["quadrature_degree"]
        /\ quad_pc = "raised" =>
                QuadLowered.raised = quad_raised /\ quad_raised # "none"
        /\ quad_pc = "returned" =>
                /\ quad_made
                /\ quad_params["quadrature_rule"]
                        = QuadratureRule(QuadLowered.integration_dim,
                                         quad_args.params["quadrature_degree"].int)
        /\ QuadEnded =>
                LET r == set_quad_rule(Del(quad_args.params, "estimated_polynomial_degree"),
                                       quad_args.cell, quad_args.integral_type,
                                       quad_args.functions)
                IN /\ r.raised = quad_raised
                   /\ Get(r.params, "quadrature_rule") = Get(quad_params, "quadrature_rule")
    /\ (~Override /\ quad_pc # "degree") =>
        IF "estimated_polynomial_degree" \in DOMAIN quad_args.params
            THEN quadrature_degree = quad_args.params["estimated_polynomial_degree"]
            ELSE quad_pc = "raised" /\ quad_raised = "KeyError"

\* A call with the degree 4, no rule and no estimate has returned a rule of
\* degree 4.
C12_Witness ==
    /\ quad_pc = "returned"
    /\ Override
    /\ NoExplicitRule
    /\ "estimated_polynomial_degree" \notin DOMAIN quad_args.params
    /\ quad_made
    /\ quad_params["quadrature_rule"].int = 4

\* The call was given an explicit rule object: a quadrature_rule entry that
\* is not the "default" sentinel.
ExplicitRule ==
    /\ "quadrature_rule" \in DOMAIN quad_args.params
    /\ quad_args.params["quadrature_rule"] # PyStr("default")

-----------------------------------------------------------------------------
(* Properties of the kernel configuration and of the reconciliation of the *)
(* dummy indices, over SpecConfig                                          *)

TrueMultiindices == kernel_config.fem_config.argument_multiindices

DummyMultiindices == kernel_config.fem_config.argument_multiindices_dummy

\* As many arguments, and as many indices for each argument.
SameCounts(true, dummy) ==
    /\ Len(true) = Len(dummy)
    /\ \A k \in DOMAIN true : Len(true[k]) = Len(dummy[k])

\* The extents agree position by position.
SameExtents(true, dummy) ==
    \A k \in DOMAIN true : \A j \in DOMAIN true[k] :
        true[k][j].extent = dummy[k][j].extent

\* No dummy index is a true index.
Fresh(true, dummy) == Elems(Flatten(true)) \cap Elems(Flatten(dummy)) = {}

\* The configuration passed set_arguments.
ArgumentsSet ==
    /\ kernel_config # <<>>
    /\ compile_pc \notin {"set_arguments", "create_kernel_config"}
    /\ compile_raised = "none"

Compiled ==
    compile_ufl(CurrentIntegralData.integrals[integral].integrand, params, kernel_config)

CompiledDirectly ==
    compile_ufl(CurrentIntegralData.integrals[integral].integrand, params,
                [kernel_config EXCEPT !.fem_config.argument_multiindices_dummy =
                                          TrueMultiindices])

Dummies == Elems(Flatten(DummyMultiindices))

\* The index that takes the place of i: the true index at the flattened
\* position of the dummy index i, or i itself.
Paired(i) ==
    LET from == Flatten(DummyMultiindices)
        to   == Flatten(TrueMultiindices)
    IN IF \E k \in DOMAIN from : from[k] = i
          THEN to[CHOOSE k \in DOMAIN from : from[k] = i]
          ELSE i

\* b is a with every occurrence of a dummy index replaced by its pair.
RECURSIVE Reconciled(_, _)
Reconciled(a, b) ==
    /\ b.op = a.op
    /\ b.name = a.name
    /\ Len(b.multiindex) = Len(a.multiindex)
    /\ Len(b.children) = Len(a.children)
    /\ \A j \in DOMAIN a.multiindex : b.multiindex[j] = Paired(a.multiindex[j])
    /\ \A j \in DOMAIN a.children : Reconciled(a.children[j], b.children[j])

\* The subtrees of a without a free dummy index are in b as they are.
RECURSIVE Kept(_, _)
Kept(a, b) ==
    IF FreeIndices(a) \cap Dummies = {} THEN b = a
    ELSE /\ Len(b.children) = Len(a.children)
         /\ \A j \in DOMAIN a.children : Kept(a.children[j], b.children[j])

\* Whether a has a proper subtree without a free dummy index.
HasKeptSubtree(a) ==
    \E j \in DOMAIN a.children :
        \E i \in DOMAIN a.children[j].children :
            FreeIndices(a.children[j].children[i]) \cap Dummies = {}

RECURSIVE SeqSum(_)
SeqSum(xs) == IF xs = <<>> THEN 0 ELSE Head(xs) + SeqSum(Tail(xs))

RECURSIVE SeqProduct(_)
SeqProduct(xs) == IF xs = <<>> THEN 1 ELSE Head(xs) * SeqProduct(Tail(xs))

\* The entry of a table at the given index values: a value that tells the
\* tables and the positions of the values apart.
TableValue(name, values) ==
    (IF name = "basis" THEN 1 ELSE IF name = "Coefficient" THEN 2 ELSE 3)
      + SeqSum([j \in DOMAIN values |-> j * (values[j] + 1)])

\* The value of an expression under an assignment of values to its free
\* indices.
RECURSIVE Eval(_, _)
Eval(node, asg) ==
    IF node.op = "Indexed"
       THEN TableValue(node.name, [j \in DOMAIN node.multiindex |-> asg[node.multiindex[j]]])
    ELSE IF node.op = "Product"
       THEN SeqProduct([j \in DOMAIN node.children |-> Eval(node.children[j], asg)])
    ELSE LET i == node.multiindex[1] IN
         SeqSum([v \in 1..i.extent |->
                    Eval(node.children[1],
                         [x \in DOMAIN asg \cup {i} |-> IF x = i THEN v - 1 ELSE asg[x]])])

\* The assignments of values within the extents to a set of indices.
Assignments(indices) ==
    {asg \in [indices -> 0..5] : \A i \in indices : asg[i] < i.extent}

\* replace_argument_multiindices_dummy has just returned.
JustReconciled == compile_pc = "construct_integrals"

\* C15: in the expressions replace_argument_multiindices_dummy returns no
\* dummy argument index occurs free; every occurrence of one is replaced by
\* the true index at the same flattened position; the subtrees without a
\* dummy index are returned as they were; and each expression has, under
\* every assignment of values within the extents, the value of the
\* expression compiled directly over the true indices.
C15_DummyIndicesReplacedByTrueOnes ==
    JustReconciled =>
        /\ Len(expressions) = Len(Compiled)
        /\ \A e \in DOMAIN expressions :
              /\ FreeIndices(expressions[e]) \cap Dummies = {}
              /\ Reconciled(Compiled[e], expressions[e])
              /\ Kept(Compiled[e], expressions[e])
              /\ FreeIndices(expressions[e]) = FreeIndices(CompiledDirectly[e])
              /\ \A asg \in Assignments(FreeIndices(expressions[e])) :
                    Eval(expressions[e], asg) = Eval(CompiledDirectly[e], asg)

\* Test and trial function of unequal extents, a coefficient factor without
\* argument indices, and both dummy indices replaced.
C15_Witness ==
    /\ JustReconciled
    /\ kernel_config.arguments = <<"v", "w">>
    /\ expressions # Compiled
    /\ HasKeptSubtree(Compiled[1])
    /\ FreeIndices(Compiled[1]) = {Index("v", TRUE), Index("w", TRUE)}
    /\ FreeIndices(expressions[1]) = {Index("v", FALSE), Index("w", FALSE)}

-----------------------------------------------------------------------------
(* Properties of the renumbering, over SpecRenumber                        *)

\* The records, in input order, whose function_replace_map has func.
Renumbering(func) ==
    {r \in DOMAIN form_data_tuple : func \in DOMAIN form_data_tuple[r].function_replace_map}

\* The renumbering of lines 91-98 is done.
Renumbered == form_pc = "subspaces"

\* C17: the coefficient at position i of the reduced, ordered list is sent
\* to a coefficient of count i in the function space of its target in the
\* first record, in input order, whose function_replace_map has it; the
\* records after that one do not matter, and a coefficient that no record's
\* map has gets no entry.
C17_RenumberedByFirstRecord ==
    Renumbered =>
        /\ DOMAIN function_replace_map \subseteq Elems(reduced_coefficients)
        /\ \A i \in DOMAIN reduced_coefficients :
              LET func == reduced_coefficients[i] IN
              IF Renumbering(func) = {} THEN func \notin DOMAIN function_replace_map
              ELSE LET first == CHOOSE r \in Renumbering(func) :
                                    \A q \in Renumbering(func) : r <= q
                       later == {q \in DOMAIN form_data_tuple : q > first}
                   IN /\ func \in DOMAIN function_replace_map
                      /\ function_replace_map[func].kind = "Coefficient"
                      /\ function_replace_map[func].count = i - 1
                      /\ function_replace_map[func].space =
                            form_data_tuple[first].function_replace_map[func].space
                      /\ function_replace_map[func] =
                            FunctionReplaceMap(
                                [r \in DOMAIN form_data_tuple |->
                                    IF r \in later
                                       THEN [form_data_tuple[r] EXCEPT
                                                !.function_replace_map = [f \in {} |-> f]]
                                       ELSE form_data_tuple[r]],
                                reduced_coefficients)[func]

\* Two records renumber one coefficient into different function spaces and
\* the first record's space is taken.
C17_Witness ==
    /\ Renumbered
    /\ Len(form_data_tuple) = 2
    /\ \E i \in DOMAIN reduced_coefficients :
          LET func == reduced_coefficients[i] IN
          /\ Renumbering(func) = {1, 2}
          /\ form_data_tuple[1].function_replace_map[func].space = "V"
          /\ form_data_tuple[2].function_replace_map[func].space = "W"
          /\ function_replace_map[func] = Coefficient("V", i - 1)

-----------------------------------------------------------------------------
(* Properties of the parameters of the integrals, over SpecCompile         *)

\* The rule make_quadrature builds for the current integral data from a
\* degree.
MadeRule(degree) ==
    QuadratureRule(lower_integral_type(ufl_cell(CurrentIntegralData.domain),
                                       CurrentIntegralData.integral_type).integration_dim,
                   degree.int)

\* The global parameters overridden by the metadata of one integral, with
\* the rule resolved for it: the rule of the metadata or of the global
\* parameters if there is one other than "default", else the rule made for
\* the degree of the metadata, of the global parameters or of the estimate,
\* in this order.
OwnParams(global, metadata) ==
    LET merged == [k \in DOMAIN global \cup DOMAIN metadata |->
                      IF k \in DOMAIN metadata THEN metadata[k] ELSE global[k]]
        degree == IF "quadrature_degree" \in DOMAIN merged
                     THEN merged["quadrature_degree"]
                     ELSE merged["estimated_polynomial_degree"]
        given  == /\ "quadrature_rule" \in DOMAIN merged
                  /\ merged["quadrature_rule"] # PyStr("default")
    IN [k \in DOMAIN merged \cup {"quadrature_rule"} |->
           IF k = "quadrature_rule" /\ ~given THEN MadeRule(degree) ELSE merged[k]]

\* C18: while compile_integral runs, the global parameters stay as they
\* were passed, whatever integrals are processed; and the parameters an
\* integral is compiled with are the global ones overridden by its own
\* metadata, with its own resolved rule, whatever the metadata and the
\* rules of the integrals before it were.
C18_MetadataStaysWithItsIntegral ==
    [][ /\ compile_pc # "compute_form_data" => parameters' = parameters
        /\ compile_pc = "set_quad_rule" /\ compile_pc' = "compile_ufl" =>
              LET metadata == CurrentIntegralData.integrals[integral + 1].metadata IN
              /\ params' = OwnParams(parameters, metadata)
              /\ \A k \in DOMAIN params' :
                    k \notin DOMAIN metadata /\ k # "quadrature_rule" =>
                        k \in DOMAIN parameters /\ params'[k] = parameters[k]
        /\ compile_pc \in {"compile_ufl", "replace_argument_multiindices_dummy",
                          "construct_integrals", "stash_integrals"} =>
              params' = params ]_vars

\* The second integral of an integral data is compiled with the rule of its
\* estimated degree after a first integral whose metadata set a degree of
\* its own; the global parameters have neither.
C18_Witness ==
    /\ compile_pc = "compile_ufl"
    /\ integral = 2
    /\ CurrentIntegralData.integrals[1].metadata
          = SetItem(EstimatedDegree, "quadrature_degree", PyInt(4))
    /\ CurrentIntegralData.integrals[2].metadata = EstimatedDegree
    /\ "quadrature_degree" \notin DOMAIN parameters
    /\ "quadrature_rule" \notin DOMAIN parameters
    /\ "quadrature_degree" \notin DOMAIN params
    /\ params["quadrature_rule"].int = 2

====
